---- MODULE Spec2Model ----
(***************************************************************************)
(* State-machine model of drivers/iio/proximity/sx9310.c: the channel      *)
(* enable bookkeeping, the synchronous read, the two interrupt stages,     *)
(* event configuration, buffer hooks, trigger state and suspend/resume.    *)
(***************************************************************************)
EXTENDS Integers, Sequences, FiniteSets, TLC

(* ------------------------------------------------------------------ *)
(* Program constants                                                   *)
(* ------------------------------------------------------------------ *)
SX9310_CONVDONE_IRQ == 8
SX9310_FAR_IRQ == 32
SX9310_CLOSE_IRQ == 64
SX9310_REG_PROX_CTRL0_SENSOREN_MASK == 15
SX9310_REG_PROX_CTRL0_SCANPERIOD_MASK == 240
SX9310_REG_PROX_CTRL0_SCANPERIOD_15MS == 1
SX9310_REG_DIFF_MSB == 53
SX9310_NUM_CHANNELS == 4
\* width of a register value (regmap val_bits)
RegBits == 8

(* ------------------------------------------------------------------ *)
(* Bounds of the model                                                 *)
(* ------------------------------------------------------------------ *)
\* channels 0..MaxChan are used by event configuration, scans and the enable
\* helpers
MaxChan == 1
\* next to other handlers, sx9310_read_raw is called for channels 0..MaxReadChan
MaxReadChan == 0
\* STAT0 reads return a value in 0..MaxStat
MaxStat == 7
\* the completion's done count saturates here (no new CONVDONE is raised)
MaxDone == 1
\* nesting depth of disable_irq beyond which suspend is not entered again
MaxDepth == 2
\* concurrent callers of sx9310_read_raw
NumReaders == 2

(* ------------------------------------------------------------------ *)
(* Bit arithmetic on unsigned integers                                 *)
(* ------------------------------------------------------------------ *)
RECURSIVE BitAnd(_, _)
BitAnd(a, b) ==
    IF a = 0 \/ b = 0 THEN 0
    ELSE (a % 2) * (b % 2) + 2 * BitAnd(a \div 2, b \div 2)

BitOr(a, b) == a + b - BitAnd(a, b)

BitXor(a, b) == a + b - 2 * BitAnd(a, b)

\* a & ~b
BitClear(a, b) == a - BitAnd(a, b)

BIT(n) == 2 ^ n

TestBit(x, n) == (x \div (2 ^ n)) % 2 = 1

\* FIELD_GET / FIELD_PREP for the scan-period field, GENMASK(7, 4)
FieldGetScanPeriod(v) == BitAnd(v, SX9310_REG_PROX_CTRL0_SCANPERIOD_MASK) \div 16

FieldPrepScanPeriod(i) == BitAnd(i * 16, SX9310_REG_PROX_CTRL0_SCANPERIOD_MASK)

(* ------------------------------------------------------------------ *)
(* State                                                               *)
(* ------------------------------------------------------------------ *)
VARIABLES
    data,        \* struct sx9310_data: chan_read, chan_event, chan_prox_stat,
                 \* trigger_enabled, suspend_ctrl0, completion (its done count)
    regmap,      \* register values: PROX_CTRL0, IRQ_MSK
    client_irq,  \* data->client->irq is non-zero (an interrupt line exists)
    mutex,       \* data->mutex: "free" or the operation holding it
    mlock,       \* the IIO core's direct-mode/buffer-mode lock: "free" or holder
    buffer,      \* IIO core: [enabled, active_scan_mask]
    rd,          \* per caller of sx9310_read_raw: [pc, chan, ret]
    irq_src,     \* hardware: pending causes in SX9310_REG_IRQ_SRC
    irq_depth,   \* interrupt line: nesting depth of disable_irq (0 = enabled)
    irq_pc,      \* "idle" or "wake" (the threaded handler has been requested)
    pm,          \* "on" or "suspended" (between sx9310_suspend and sx9310_resume)
    last         \* what the latest step did: operation, return value, register
                 \* accesses in order, and the values it started from

vars == <<data, regmap, client_irq, mutex, mlock, buffer, rd,
          irq_src, irq_depth, irq_pc, pm, last>>

Channels == 0..MaxChan
ChanMasks == 0..(2 ^ (MaxChan + 1) - 1)
\* the channels read synchronously
ReadChannels == 0..MaxReadChan
Readers == 1..NumReaders
\* one choice per register access of a critical section: TRUE = the access succeeds
OpSlots == 1..4
\* the choices for a handler that makes at most n register accesses
Faults(n) == {f \in [OpSlots -> BOOLEAN] : \A i \in OpSlots : i > n => f[i]}
NoFaults == [i \in OpSlots |-> TRUE]
\* f decides only about accesses the handler made: choices that differ after
\* its last access are the same run
Used(c, f) == \A i \in OpSlots : i > c.n => f[i]

(* ------------------------------------------------------------------ *)
(* Execution context of one handler                                    *)
(*   c = [data, regmap, irq, irq_depth, held, n, log, ret, val]        *)
(* irq: an interrupt line exists; held: the handler holds data->mutex; *)
(* n counts its register accesses so far; log lists, in order, its     *)
(* register accesses and its calls into the kernel; ret and val are    *)
(* the C variables ret and val / *val.                                 *)
(* ------------------------------------------------------------------ *)
Ctx ==
    [data |-> data, regmap |-> regmap, irq |-> client_irq,
     irq_depth |-> irq_depth, held |-> FALSE,
     n |-> 0, log |-> <<>>, ret |-> "0", val |-> 0]

Note(c, e) == [c EXCEPT !.log = Append(@, e)]

Return(c, ret) == [c EXCEPT !.ret = ret]

mutex_lock(c) == Note([c EXCEPT !.held = TRUE], [op |-> "mutex_lock"])

mutex_unlock(c) == Note([c EXCEPT !.held = FALSE], [op |-> "mutex_unlock"])

\* the register accesses of a log, in order
IsRegOp(e) == e.op \in {"update_bits", "write", "read", "bulk_read"}

RegOps(log) == SelectSeq(log, IsRegOp)

(* ------------------------------------------------------------------ *)
(* Register access facade (regmap)                                     *)
(* ------------------------------------------------------------------ *)
regmap_update_bits(c, f, reg, mask, val) ==
    LET ok == f[c.n + 1]
        orig == c.regmap[reg]
        tmp == BitOr(BitClear(orig, mask), BitAnd(val, mask))
    IN [c EXCEPT !.regmap[reg] = IF ok THEN tmp ELSE orig,
                 !.n = @ + 1,
                 !.log = Append(@, [op |-> "update_bits", reg |-> reg,
                                    mask |-> mask, val |-> val, ok |-> ok,
                                    held |-> c.held]),
                 !.ret = IF ok THEN "0" ELSE "EIO"]

regmap_write(c, f, reg, val) ==
    LET ok == f[c.n + 1]
    IN [c EXCEPT !.regmap = IF ok /\ reg \in DOMAIN c.regmap
                            THEN [@ EXCEPT ![reg] = val % (2 ^ RegBits)] ELSE @,
                 !.n = @ + 1,
                 !.log = Append(@, [op |-> "write", reg |-> reg,
                                    mask |-> 2 ^ RegBits - 1, val |-> val,
                                    ok |-> ok, held |-> c.held]),
                 !.ret = IF ok THEN "0" ELSE "EIO"]

\* hwval: what the device answers (the cached value for PROX_CTRL0, the
\* hardware's for the volatile registers); c.val is left alone on failure
regmap_read(c, f, reg, hwval) ==
    LET ok == f[c.n + 1]
    IN [c EXCEPT !.val = IF ok THEN hwval ELSE @,
                 !.n = @ + 1,
                 !.log = Append(@, [op |-> "read", reg |-> reg, mask |-> 0,
                                    val |-> hwval, ok |-> ok, held |-> c.held]),
                 !.ret = IF ok THEN "0" ELSE "EIO"]

regmap_bulk_read(c, f, reg, bytes) ==
    LET ok == f[c.n + 1]
    IN [c EXCEPT !.val = IF ok THEN bytes ELSE @,
                 !.n = @ + 1,
                 !.log = Append(@, [op |-> "bulk_read", reg |-> reg, mask |-> 0,
                                    val |-> bytes, ok |-> ok, held |-> c.held]),
                 !.ret = IF ok THEN "0" ELSE "EIO"]

(* ------------------------------------------------------------------ *)
(* Channel enable bookkeeping                                          *)
(* ------------------------------------------------------------------ *)
\* Faulty variants of sx9310_update_chan_en: one writes the field on every
\* call, one derives it from chan_read alone, one commits the masks first
update_chan_en_writes_always(c, f, chan_read, chan_event) ==
    LET channels == BitOr(chan_read, chan_event)
        c1 == regmap_update_bits(c, f, "PROX_CTRL0",
                                 SX9310_REG_PROX_CTRL0_SENSOREN_MASK, channels)
    IN IF c1.ret # "0" THEN c1
       ELSE [c1 EXCEPT !.data.chan_read = chan_read,
                       !.data.chan_event = chan_event]

update_chan_en_from_chan_read(c, f, chan_read, chan_event) ==
    LET channels == chan_read
        c1 == IF BitOr(c.data.chan_read, c.data.chan_event) # channels
              THEN regmap_update_bits(c, f, "PROX_CTRL0",
                                      SX9310_REG_PROX_CTRL0_SENSOREN_MASK, channels)
              ELSE [c EXCEPT !.ret = "0"]
    IN IF c1.ret # "0" THEN c1
       ELSE [c1 EXCEPT !.data.chan_read = chan_read,
                       !.data.chan_event = chan_event]

update_chan_en_commits_first(c, f, chan_read, chan_event) ==
    LET channels == BitOr(chan_read, chan_event)
        c0 == [c EXCEPT !.data.chan_read = chan_read,
                        !.data.chan_event = chan_event]
    IN IF BitOr(c.data.chan_read, c.data.chan_event) # channels
       THEN regmap_update_bits(c0, f, "PROX_CTRL0",
                               SX9310_REG_PROX_CTRL0_SENSOREN_MASK, channels)
       ELSE [c0 EXCEPT !.ret = "0"]

sx9310_update_chan_en(c, f, chan_read, chan_event) ==
    LET channels == BitOr(chan_read, chan_event)
        c1 == IF BitOr(c.data.chan_read, c.data.chan_event) # channels
              THEN regmap_update_bits(c, f, "PROX_CTRL0",
                                      SX9310_REG_PROX_CTRL0_SENSOREN_MASK, channels)
              ELSE [c EXCEPT !.ret = "0"]
    IN IF c1.ret # "0" THEN c1
       ELSE [c1 EXCEPT !.data.chan_read = chan_read,
                       !.data.chan_event = chan_event]

sx9310_get_read_channel(c, f, channel) ==
    sx9310_update_chan_en(c, f, BitOr(c.data.chan_read, BIT(channel)),
                          c.data.chan_event)

sx9310_put_read_channel(c, f, channel) ==
    sx9310_update_chan_en(c, f, BitClear(c.data.chan_read, BIT(channel)),
                          c.data.chan_event)

sx9310_get_event_channel(c, f, channel) ==
    sx9310_update_chan_en(c, f, c.data.chan_read,
                          BitOr(c.data.chan_event, BIT(channel)))

sx9310_put_event_channel(c, f, channel) ==
    sx9310_update_chan_en(c, f, c.data.chan_read,
                          BitClear(c.data.chan_event, BIT(channel)))

sx9310_enable_irq(c, f, irq) ==
    IF ~c.irq THEN [c EXCEPT !.ret = "0"]
    ELSE regmap_update_bits(c, f, "IRQ_MSK", irq, irq)

sx9310_disable_irq(c, f, irq) ==
    IF ~c.irq THEN [c EXCEPT !.ret = "0"]
    ELSE regmap_update_bits(c, f, "IRQ_MSK", irq, 0)

(* ------------------------------------------------------------------ *)
(* Synchronous read: sx9310_read_proximity                             *)
(* ------------------------------------------------------------------ *)
\* .address of every entry of sx9310_channels (SX9310_NAMED_CHANNEL)
ChanAddress(channel) == SX9310_REG_DIFF_MSB

be16_to_cpu(bytes) == bytes[1] * (2 ^ RegBits) + bytes[2]

\* (s32)(value << shift) >> shift with shift = 31 - index: the left shift keeps
\* bits index..0 of value, the arithmetic right shift copies bit index upwards
sign_extend32(value, index) ==
    LET low == value % (2 ^ (index + 1))
    IN IF low >= 2 ^ index THEN low - 2 ^ (index + 1) ELSE low

\* faulty variant: every channel decoded as a full 16-bit value
DecodeSample16(channel, bytes) == sign_extend32(be16_to_cpu(bytes), 15)

DecodeSample(channel, bytes) ==
    sign_extend32(be16_to_cpu(bytes),
                  IF ChanAddress(channel) = SX9310_REG_DIFF_MSB THEN 11 ELSE 15)

sx9310_read_prox_data(c, f, channel, bytes) ==
    LET c1 == regmap_write(c, f, "SENSOR_SEL", channel)
    IN IF c1.ret # "0" THEN c1
       ELSE regmap_bulk_read(c1, f, ChanAddress(channel), bytes)

\* labels out, out_put_channel and out_disable_irq: the results of the
\* cleanup calls are dropped, ret is returned
\* faulty variant: the result of the last cleanup call is returned
ReadOutLastResult(c, ret) == Return(mutex_unlock(c), c.ret)

ReadOut(c, ret) == Return(mutex_unlock(c), ret)

ReadOutPutChannel(c, f, channel, ret) ==
    ReadOut(sx9310_put_read_channel(c, f, channel), ret)

\* faulty variant: the conversion-complete cause is not disabled
ReadOutKeepIrq(c, f, channel, ret) == ReadOutPutChannel(c, f, channel, ret)

ReadOutDisableIrq(c, f, channel, ret) ==
    ReadOutPutChannel(sx9310_disable_irq(c, f, SX9310_CONVDONE_IRQ), f, channel, ret)

\* faulty variant: the mutex is kept across the wait
ReadProximityStartKeepsMutex(c, f, channel) ==
    LET c0 == mutex_lock(c)
        c1 == sx9310_get_read_channel(c0, f, channel)
        c2 == sx9310_enable_irq(c1, f, SX9310_CONVDONE_IRQ)
    IN IF c1.ret # "0" THEN ReadOut(c1, c1.ret)
       ELSE IF c2.ret # "0" THEN ReadOutPutChannel(c2, f, channel, c2.ret)
       ELSE c2

\* lines 376-386: up to the mutex_unlock before the wait (ret = "0": the
\* caller goes on to wait), or to the return on failure
ReadProximityStart(c, f, channel) ==
    LET c0 == mutex_lock(c)
        c1 == sx9310_get_read_channel(c0, f, channel)
        c2 == sx9310_enable_irq(c1, f, SX9310_CONVDONE_IRQ)
    IN IF c1.ret # "0" THEN ReadOut(c1, c1.ret)
       ELSE IF c2.ret # "0" THEN ReadOutPutChannel(c2, f, channel, c2.ret)
       ELSE mutex_unlock(c2)

\* lines 395-426: from the mutex_lock after the wait to the return
ReadProximityFinish(c, f, channel, waitret, bytes) ==
    LET c0 == mutex_lock(c)
        c1 == sx9310_read_prox_data(c0, f, channel, bytes)
        c2 == [c1 EXCEPT !.val = DecodeSample(channel, c1.val)]
        c3 == sx9310_disable_irq(c2, f, SX9310_CONVDONE_IRQ)
        c4 == sx9310_put_read_channel(c3, f, channel)
    IN IF waitret # "0" THEN ReadOutDisableIrq(c0, f, channel, waitret)
       ELSE IF c1.ret # "0" THEN ReadOutDisableIrq(c1, f, channel, c1.ret)
       ELSE IF c3.ret # "0" THEN ReadOutPutChannel(c3, f, channel, c3.ret)
       ELSE IF c4.ret # "0" THEN ReadOut(c4, c4.ret)
       ELSE Return(mutex_unlock(c4), "IIO_VAL_INT")

sx9310_scan_period_table ==
    <<2, 15, 30, 45, 60, 90, 120, 200, 400, 600, 800, 1000, 2000, 3000, 4000, 5000>>

\* faulty variant: sleeps the first scan period whatever PROX_CTRL0 selects
wait_for_sample_first_period(c, f) ==
    LET c1 == regmap_read(c, f, "PROX_CTRL0", c.regmap.PROX_CTRL0)
    IN IF c1.ret # "0" THEN c1
       ELSE Note(c1, [op |-> "msleep", ms |-> sx9310_scan_period_table[1]])

\* called between the two critical sections of a read, without the mutex
sx9310_wait_for_sample(c, f) ==
    LET c1 == regmap_read(c, f, "PROX_CTRL0", c.regmap.PROX_CTRL0)
    IN IF c1.ret # "0" THEN c1
       ELSE Note(c1, [op |-> "msleep",
                      ms |-> sx9310_scan_period_table[FieldGetScanPeriod(c1.val) + 1]])

(* ------------------------------------------------------------------ *)
(* Sampling frequency                                                  *)
(* ------------------------------------------------------------------ *)
sx9310_samp_freq_table ==
    << <<500, 0>>, <<66, 666666>>, <<33, 333333>>, <<22, 222222>>,
       <<16, 666666>>, <<11, 111111>>, <<8, 333333>>, <<5, 0>>,
       <<2, 500000>>, <<1, 666666>>, <<1, 250000>>, <<1, 0>>,
       <<0, 500000>>, <<0, 333333>>, <<0, 250000>>, <<0, 200000>> >>

\* the loop of sx9310_set_samp_freq: the first matching index, 0-based, or
\* ARRAY_SIZE when there is none
SampFreqIndex(val, val2) ==
    LET hits == {i \in 1..Len(sx9310_samp_freq_table) :
                    sx9310_samp_freq_table[i] = <<val, val2>>}
    IN IF hits = {} THEN Len(sx9310_samp_freq_table)
       ELSE (CHOOSE i \in hits : \A j \in hits : i <= j) - 1

sx9310_set_samp_freq(c, f, val, val2) ==
    LET i == SampFreqIndex(val, val2)
        c1 == regmap_update_bits(mutex_lock(c), f, "PROX_CTRL0",
                                 SX9310_REG_PROX_CTRL0_SCANPERIOD_MASK,
                                 FieldPrepScanPeriod(i))
    IN IF i = Len(sx9310_samp_freq_table) THEN Return(c, "EINVAL")
       ELSE Return(mutex_unlock(c1), c1.ret)

(* ------------------------------------------------------------------ *)
(* Interrupt handling                                                  *)
(* ------------------------------------------------------------------ *)
\* faulty variant: the trigger is polled whether or not it is enabled
irq_handler_polls_always(c) ==
    Return(Note(c, [op |-> "iio_trigger_poll"]), "IRQ_WAKE_THREAD")

\* sx9310_irq_handler: polls the trigger when it is enabled and asks for the
\* threaded handler in every case
sx9310_irq_handler(c) ==
    Return(IF c.data.trigger_enabled THEN Note(c, [op |-> "iio_trigger_poll"]) ELSE c,
           "IRQ_WAKE_THREAD")

\* for_each_set_bit(chan, &prox_changed, SX9310_NUM_CHANNELS) of
\* sx9310_push_events: one iio_push_event per set bit, from bit chan upwards;
\* lost is the set of channels whose event the event queue drops
\* faulty variant: a set status bit reported as rising
EventDirOfBit(val, chan) == IF TestBit(val, chan) THEN "RISING" ELSE "FALLING"

\* line 551: the direction reported for a channel whose status bit is val's
EventDir(val, chan) == IF TestBit(val, chan) THEN "FALLING" ELSE "RISING"

\* faulty variant: each event is stamped when it is pushed
RECURSIVE PushEventLoopRestamped(_, _, _, _, _, _)
PushEventLoopRestamped(c, val, prox_changed, chan, timestamp, lost) ==
    IF chan >= SX9310_NUM_CHANNELS THEN c
    ELSE PushEventLoopRestamped(
            IF TestBit(prox_changed, chan)
            THEN Note(c, [op |-> "iio_push_event", chan |-> chan,
                          dir |-> EventDir(val, chan),
                          timestamp |-> Len(c.log), ok |-> chan \notin lost])
            ELSE c,
            val, prox_changed, chan + 1, timestamp, lost)

RECURSIVE PushEventLoop(_, _, _, _, _, _)
PushEventLoop(c, val, prox_changed, chan, timestamp, lost) ==
    IF chan >= SX9310_NUM_CHANNELS THEN c
    ELSE PushEventLoop(
            IF TestBit(prox_changed, chan)
            THEN Note(c, [op |-> "iio_push_event", chan |-> chan,
                          dir |-> EventDir(val, chan),
                          timestamp |-> timestamp, ok |-> chan \notin lost])
            ELSE c,
            val, prox_changed, chan + 1, timestamp, lost)

\* faulty variant: changes are not masked with chan_event
push_events_unmasked(c, f, stat, lost) ==
    LET c0 == Note(c, [op |-> "iio_get_time_ns"])
        timestamp == Len(c0.log)
        c1 == regmap_read(c0, f, "STAT0", stat)
        val == c1.val
        prox_changed == BitXor(c1.data.chan_prox_stat, val)
        c2 == PushEventLoop(c1, val, prox_changed, 0, timestamp, lost)
    IN IF c1.ret # "0" THEN c1
       ELSE [c2 EXCEPT !.data.chan_prox_stat = val]

\* stat: the value the device holds in STAT0
sx9310_push_events(c, f, stat, lost) ==
    LET c0 == Note(c, [op |-> "iio_get_time_ns"])
        timestamp == Len(c0.log)
        c1 == regmap_read(c0, f, "STAT0", stat)
        val == c1.val
        prox_changed == BitAnd(BitXor(c1.data.chan_prox_stat, val), c1.data.chan_event)
        c2 == PushEventLoop(c1, val, prox_changed, 0, timestamp, lost)
    IN IF c1.ret # "0" THEN c1
       ELSE [c2 EXCEPT !.data.chan_prox_stat = val]

\* faulty variant: the completion is signalled for every interrupt
irq_thread_completes_always(c, f, src, stat, lost) ==
    LET c1 == regmap_read(mutex_lock(c), f, "IRQ_SRC", src)
        val == c1.val
        c2 == IF BitAnd(val, SX9310_FAR_IRQ + SX9310_CLOSE_IRQ) # 0
              THEN sx9310_push_events(c1, f, stat, lost)
              ELSE c1
        c3 == Note([c2 EXCEPT !.data.completion = @ + 1], [op |-> "complete"])
    IN IF c1.ret # "0" THEN Return(mutex_unlock(c1), "IRQ_HANDLED")
       ELSE Return(mutex_unlock(c3), "IRQ_HANDLED")

\* src: the value the device holds in IRQ_SRC
sx9310_irq_thread_handler(c, f, src, stat, lost) ==
    LET c1 == regmap_read(mutex_lock(c), f, "IRQ_SRC", src)
        val == c1.val
        c2 == IF BitAnd(val, SX9310_FAR_IRQ + SX9310_CLOSE_IRQ) # 0
              THEN sx9310_push_events(c1, f, stat, lost)
              ELSE c1
        c3 == IF BitAnd(val, SX9310_CONVDONE_IRQ) # 0
              THEN Note([c2 EXCEPT !.data.completion = @ + 1], [op |-> "complete"])
              ELSE c2
    IN IF c1.ret # "0" THEN Return(mutex_unlock(c1), "IRQ_HANDLED")
       ELSE Return(mutex_unlock(c3), "IRQ_HANDLED")

(* ------------------------------------------------------------------ *)
(* Event configuration, trigger state, buffer hooks                    *)
(* ------------------------------------------------------------------ *)
sx9310_read_event_config(c, channel) ==
    Return(c, IF TestBit(c.data.chan_event, channel) THEN "1" ELSE "0")

\* faulty variant: the event causes are disabled at every unsubscription
write_event_config_disables_early(c, f, channel, state) ==
    LET eventirq == SX9310_FAR_IRQ + SX9310_CLOSE_IRQ
        c0 == mutex_lock(c)
        g1 == sx9310_get_event_channel(c0, f, channel)
        g2 == sx9310_enable_irq(g1, f, eventirq)
        p1 == sx9310_put_event_channel(c0, f, channel)
        p2 == sx9310_disable_irq(p1, f, eventirq)
        body ==
            IF state
            THEN IF g1.ret # "0" THEN g1
                 ELSE IF BitClear(g1.data.chan_event, BIT(channel)) = 0
                 THEN IF g2.ret # "0"
                      THEN Return(sx9310_put_event_channel(g2, f, channel), g2.ret)
                      ELSE g2
                 ELSE g1
            ELSE IF p1.ret # "0" THEN p1
                 ELSE IF p2.ret # "0"
                      THEN Return(sx9310_get_event_channel(p2, f, channel), p2.ret)
                      ELSE p2
    IN IF TestBit(c.data.chan_event, channel) = state THEN Return(c, "0")
       ELSE Return(mutex_unlock(body), body.ret)

\* faulty variant: a failed update of the event causes is not rolled back
write_event_config_no_rollback(c, f, channel, state) ==
    LET eventirq == SX9310_FAR_IRQ + SX9310_CLOSE_IRQ
        c0 == mutex_lock(c)
        g1 == sx9310_get_event_channel(c0, f, channel)
        g2 == sx9310_enable_irq(g1, f, eventirq)
        p1 == sx9310_put_event_channel(c0, f, channel)
        p2 == sx9310_disable_irq(p1, f, eventirq)
        body ==
            IF state
            THEN IF g1.ret # "0" THEN g1
                 ELSE IF BitClear(g1.data.chan_event, BIT(channel)) = 0
                 THEN g2
                 ELSE g1
            ELSE IF p1.ret # "0" THEN p1
                 ELSE IF p1.data.chan_event = 0
                 THEN p2
                 ELSE p1
    IN Return(mutex_unlock(body), body.ret)

\* lines 610-633: the part of sx9310_write_event_config under the mutex
write_event_config_locked(c, f, channel, state) ==
    LET eventirq == SX9310_FAR_IRQ + SX9310_CLOSE_IRQ
        c0 == mutex_lock(c)
        g1 == sx9310_get_event_channel(c0, f, channel)
        g2 == sx9310_enable_irq(g1, f, eventirq)
        p1 == sx9310_put_event_channel(c0, f, channel)
        p2 == sx9310_disable_irq(p1, f, eventirq)
        body ==
            IF state
            THEN IF g1.ret # "0" THEN g1
                 ELSE IF BitClear(g1.data.chan_event, BIT(channel)) = 0
                 THEN IF g2.ret # "0"
                      THEN Return(sx9310_put_event_channel(g2, f, channel), g2.ret)
                      ELSE g2
                 ELSE g1
            ELSE IF p1.ret # "0" THEN p1
                 ELSE IF p1.data.chan_event = 0
                 THEN IF p2.ret # "0"
                      THEN Return(sx9310_get_event_channel(p2, f, channel), p2.ret)
                      ELSE p2
                 ELSE p1
    IN Return(mutex_unlock(body), body.ret)

\* line 607: the test of the current state is made before the mutex is taken
sx9310_write_event_config(c, f, channel, state) ==
    IF TestBit(c.data.chan_event, channel) = state THEN Return(c, "0")
    ELSE write_event_config_locked(c, f, channel, state)

\* faulty variant: the cause is disabled even while a read uses it
set_trigger_state_disables_always(c, f, state) ==
    LET c0 == mutex_lock(c)
        c1 == IF state THEN sx9310_enable_irq(c0, f, SX9310_CONVDONE_IRQ)
              ELSE sx9310_disable_irq(c0, f, SX9310_CONVDONE_IRQ)
    IN IF c1.ret # "0" THEN Return(mutex_unlock(c1), c1.ret)
       ELSE Return(mutex_unlock([c1 EXCEPT !.data.trigger_enabled = state]), "0")

sx9310_set_trigger_state(c, f, state) ==
    LET c0 == mutex_lock(c)
        c1 == IF state THEN sx9310_enable_irq(c0, f, SX9310_CONVDONE_IRQ)
              ELSE IF c0.data.chan_read = 0
              THEN sx9310_disable_irq(c0, f, SX9310_CONVDONE_IRQ)
              ELSE Return(c0, "0")
    IN IF c1.ret # "0" THEN Return(mutex_unlock(c1), c1.ret)
       ELSE Return(mutex_unlock([c1 EXCEPT !.data.trigger_enabled = state]), "0")

\* active_scan_mask bit i selects sx9310_channels[i], whose .channel is i
sx9310_buffer_preenable(c, f, active_scan_mask) ==
    LET c1 == sx9310_update_chan_en(mutex_lock(c), f, active_scan_mask,
                                    c.data.chan_event)
    IN Return(mutex_unlock(c1), c1.ret)

\* faulty variant: the scan's channels stay in chan_read
buffer_postdisable_keeps_scan(c, f) ==
    LET c1 == sx9310_update_chan_en(mutex_lock(c), f, c.data.chan_read,
                                    c.data.chan_event)
    IN Return(mutex_unlock(c1), c1.ret)

sx9310_buffer_postdisable(c, f) ==
    LET c1 == sx9310_update_chan_en(mutex_lock(c), f, 0, c.data.chan_event)
    IN Return(mutex_unlock(c1), c1.ret)

(* ------------------------------------------------------------------ *)
(* Triggered buffer                                                    *)
(* ------------------------------------------------------------------ *)
\* one choice per register access of a scan: two accesses per channel
ScanSlots == 1..(2 * (MaxChan + 1))
ScanFaults == [ScanSlots -> BOOLEAN]

\* the for_each_set_bit loop, lines 690-698: buf is data->buffer.channels so
\* far (the raw big-endian words, not decoded); on return val holds it
RECURSIVE TriggerScan(_, _, _, _, _, _)
TriggerScan(c, f, active_scan_mask, bit, bytes, buf) ==
    IF bit >= SX9310_NUM_CHANNELS THEN [c EXCEPT !.val = buf]
    ELSE IF ~TestBit(active_scan_mask, bit)
         THEN TriggerScan(c, f, active_scan_mask, bit + 1, bytes, buf)
         ELSE LET c1 == sx9310_read_prox_data(c, f, bit, bytes)
              IN IF c1.ret # "0" THEN [c1 EXCEPT !.val = buf]
                 ELSE TriggerScan(c1, f, active_scan_mask, bit + 1, bytes,
                                  Append(buf, c1.val))

\* faulty variant: the record is pushed whether or not the scan succeeded
trigger_handler_pushes_always(c, f, active_scan_mask, bytes) ==
    LET c1 == TriggerScan(mutex_lock(c), f, active_scan_mask, 0, bytes, <<>>)
        c2 == Note(c1, [op |-> "iio_push_to_buffers_with_timestamp",
                        channels |-> c1.val])
    IN Return(Note(mutex_unlock(c2), [op |-> "iio_trigger_notify_done"]),
              "IRQ_HANDLED")

sx9310_trigger_handler(c, f, active_scan_mask, bytes) ==
    LET c1 == TriggerScan(mutex_lock(c), f, active_scan_mask, 0, bytes, <<>>)
        c2 == IF c1.ret = "0"
              THEN Note(c1, [op |-> "iio_push_to_buffers_with_timestamp",
                             channels |-> c1.val])
              ELSE c1
    IN Return(Note(mutex_unlock(c2), [op |-> "iio_trigger_notify_done"]),
              "IRQ_HANDLED")

(* ------------------------------------------------------------------ *)
(* Suspend and resume                                                  *)
(* ------------------------------------------------------------------ *)
disable_irq_nosync(c) ==
    Note([c EXCEPT !.irq_depth = @ + 1], [op |-> "disable_irq_nosync"])

enable_irq(c) ==
    Note([c EXCEPT !.irq_depth = @ - 1], [op |-> "enable_irq"])

\* faulty variant: the snapshot is taken after the enable field is cleared
suspend_saves_cleared(c, f) ==
    LET c0 == mutex_lock(disable_irq_nosync(c))
        c1 == regmap_read(c0, f, "PROX_CTRL0", c0.regmap.PROX_CTRL0)
        ctrl0 == BitClear(c1.val, SX9310_REG_PROX_CTRL0_SENSOREN_MASK)
                    % (2 ^ RegBits)
        c2 == [c1 EXCEPT !.data.suspend_ctrl0 = ctrl0]
        c3 == regmap_write(c2, f, "PROX_CTRL0", ctrl0)
        c4 == regmap_write(c3, f, "PAUSE", 0)
    IN IF c1.ret # "0" THEN Return(mutex_unlock(c1), c1.ret)
       ELSE IF c3.ret # "0" THEN Return(mutex_unlock(c3), c3.ret)
       ELSE Return(mutex_unlock(c4), c4.ret)

\* faulty variant: the error paths return without the mutex_unlock of the
\* out label
suspend_returns_locked(c, f) ==
    LET c0 == mutex_lock(disable_irq_nosync(c))
        c1 == regmap_read(c0, f, "PROX_CTRL0", c0.regmap.PROX_CTRL0)
        c2 == [c1 EXCEPT !.data.suspend_ctrl0 = c1.val]
        ctrl0 == BitClear(c2.data.suspend_ctrl0, SX9310_REG_PROX_CTRL0_SENSOREN_MASK)
                    % (2 ^ RegBits)
        c3 == regmap_write(c2, f, "PROX_CTRL0", ctrl0)
        c4 == regmap_write(c3, f, "PAUSE", 0)
    IN IF c1.ret # "0" THEN Return(c1, c1.ret)
       ELSE IF c3.ret # "0" THEN Return(c3, c3.ret)
       ELSE Return(mutex_unlock(c4), c4.ret)

sx9310_suspend(c, f) ==
    LET c0 == mutex_lock(disable_irq_nosync(c))
        c1 == regmap_read(c0, f, "PROX_CTRL0", c0.regmap.PROX_CTRL0)
        c2 == [c1 EXCEPT !.data.suspend_ctrl0 = c1.val]
        ctrl0 == BitClear(c2.data.suspend_ctrl0, SX9310_REG_PROX_CTRL0_SENSOREN_MASK)
                    % (2 ^ RegBits)
        c3 == regmap_write(c2, f, "PROX_CTRL0", ctrl0)
        c4 == regmap_write(c3, f, "PAUSE", 0)
    IN IF c1.ret # "0" THEN Return(mutex_unlock(c1), c1.ret)
       ELSE IF c3.ret # "0" THEN Return(mutex_unlock(c3), c3.ret)
       ELSE Return(mutex_unlock(c4), c4.ret)

\* faulty variant: the line is re-enabled whatever the writes returned
resume_enables_always(c, f) ==
    LET c1 == regmap_write(mutex_lock(c), f, "PAUSE", 1)
        c2 == regmap_write(c1, f, "PROX_CTRL0", c1.data.suspend_ctrl0)
        c3 == IF c1.ret # "0" THEN c1 ELSE c2
    IN Return(enable_irq(mutex_unlock(c3)), c3.ret)

sx9310_resume(c, f) ==
    LET c1 == regmap_write(mutex_lock(c), f, "PAUSE", 1)
        c2 == regmap_write(c1, f, "PROX_CTRL0", c1.data.suspend_ctrl0)
        c3 == IF c1.ret # "0" THEN c1 ELSE c2
    IN IF c3.ret # "0" THEN Return(mutex_unlock(c3), c3.ret)
       ELSE Return(enable_irq(mutex_unlock(c3)), "0")

(* ------------------------------------------------------------------ *)
(* Initialisation: sx9310_init_device and sx9310_init_compensation     *)
(* ------------------------------------------------------------------ *)
\* the PROX_CTRL0 entry of sx9310_default_regs
DefaultProxCtrl0 == SX9310_REG_PROX_CTRL0_SCANPERIOD_15MS

\* sx9310_init_compensation reads PROX_CTRL0, enables all sensors, waits for
\* the compensation to end and writes the value it read back; the result of
\* that last write is not checked (restored = it succeeded)
sx9310_init_compensation(ctrl0, restored) ==
    IF restored THEN ctrl0
    ELSE BitOr(ctrl0, SX9310_REG_PROX_CTRL0_SENSOREN_MASK)

InitData ==
    [chan_read |-> 0, chan_event |-> 0, chan_prox_stat |-> 0,
     trigger_enabled |-> FALSE, suspend_ctrl0 |-> 0, completion |-> 0]

InitRegmap(restored) ==
    [PROX_CTRL0 |-> sx9310_init_compensation(DefaultProxCtrl0, restored),
     IRQ_MSK |-> 0]

(* ------------------------------------------------------------------ *)
(* Steps: one per handler, or per part of the read between its waits   *)
(* ------------------------------------------------------------------ *)
\* the record left in `last` by a step that ran a handler
Did(op, who, chan, arg, c) ==
    [op |-> op, who |-> who, chan |-> chan, arg |-> arg, ret |-> c.ret,
     val |-> c.val, log |-> c.log]

Quiet ==
    [op |-> "none", who |-> 0, chan |-> 0, arg |-> "", ret |-> "0", val |-> 0,
     log |-> <<>>]

\* the handler's effects; a handler that returned holding the mutex keeps it
Commit(op, c) ==
    /\ data' = c.data
    /\ regmap' = c.regmap
    /\ irq_depth' = c.irq_depth
    /\ mutex' = IF c.held THEN op ELSE "free"

\* byte pairs a bulk read of the value register returns
RawSamples == {<<0, 0>>, <<8, 0>>}

\* every most significant byte with the two extreme least significant bytes
AllSamples == (0..(2 ^ RegBits - 1)) \X {0, 2 ^ RegBits - 1}

\* (val, val2) pairs written to sampling_frequency; the last is in no table row
SampFreqInputs == {<<500, 0>>, <<66, 666666>>, <<1, 1>>}

StatValues == 0..MaxStat

\* the triggered buffer of the IIO core: enabled with a scan mask between
\* preenable and postdisable; poll: the trigger has polled the buffer's
\* consumer, whose handler has yet to notify the trigger
NoBuffer == [enabled |-> FALSE, active_scan_mask |-> 0, poll |-> FALSE]

Init ==
    /\ data = InitData
    /\ \E restored \in BOOLEAN : regmap = InitRegmap(restored)
    /\ client_irq \in BOOLEAN
    /\ mutex = "free"
    /\ mlock = "free"
    /\ buffer = NoBuffer
    /\ rd = [r \in Readers |-> [pc |-> "idle", chan |-> 0, ret |-> "0"]]
    /\ irq_src = 0
    /\ irq_depth = 0
    /\ irq_pc = "idle"
    /\ pm = "on"
    /\ last = Quiet

(* --- sx9310_read_raw(IIO_CHAN_INFO_RAW) / sx9310_read_proximity --- *)
\* a caller has entered sx9310_read_raw and contends for direct mode
ReadCall(r) ==
    /\ rd[r].pc = "idle"
    /\ rd' = [rd EXCEPT ![r].pc = "claim"]
    /\ last' = Quiet
    /\ UNCHANGED <<data, regmap, client_irq, mutex, mlock, buffer, irq_src,
                   irq_depth, irq_pc, pm>>

\* direct mode granted to every caller at once
DirectModeUnserialized == TRUE

\* iio_device_claim_direct_mode admits one caller at a time: the next one
\* gets in after iio_device_release_direct_mode
DirectModeClaimable == mlock = "free"

\* iio_device_claim_direct_mode fails in buffer mode
ReadRawBusy(r) ==
    /\ rd[r].pc \in {"idle", "claim"}
    /\ DirectModeClaimable
    /\ buffer.enabled
    /\ \E ch \in ReadChannels :
          last' = Did("read_raw", r, ch, "", Return(Ctx, "EBUSY"))
    /\ rd' = [rd EXCEPT ![r].pc = "idle"]
    /\ UNCHANGED <<data, regmap, client_irq, mutex, mlock, buffer, irq_src,
                   irq_depth, irq_pc, pm>>

\* last.arg of the two parts of sx9310_read_proximity: wait is "start" for the
\* part before the wait and the wait's result for the part after it; IRQ_MSK,
\* chan_read and chan_event are those on entry
ReadEntry(wait) ==
    [wait |-> wait, irq_msk |-> regmap.IRQ_MSK, chan_read |-> data.chan_read,
     chan_event |-> data.chan_event]

\* iio_device_claim_direct_mode takes the IIO core's lock, which is held until
\* sx9310_read_proximity has returned.  chans: the channels read
ReadStart(r, chans) ==
    /\ rd[r].pc \in {"idle", "claim"}
    /\ DirectModeClaimable
    /\ ~buffer.enabled
    /\ mutex = "free"
    /\ \E ch \in chans, f \in Faults(3) :
          LET c == ReadProximityStart(Ctx, f, ch)
          IN /\ Used(c, f)
             /\ Commit("read", c)
             /\ rd' = [rd EXCEPT ![r] = [pc |-> IF c.ret = "0" THEN "waiting" ELSE "idle",
                                         chan |-> IF c.ret = "0" THEN ch ELSE 0,
                                         ret |-> "0"]]
             /\ mlock' = IF c.ret = "0" THEN "read" ELSE "free"
             /\ last' = Did("read_proximity", r, ch, ReadEntry("start"), c)
    /\ UNCHANGED <<client_irq, buffer, irq_src, irq_pc, pm>>

\* wait_for_completion_interruptible returns 0 after consuming one completion
ReadWaitCompletion(r) ==
    /\ rd[r].pc = "waiting"
    /\ client_irq
    /\ data.completion > 0
    /\ data' = [data EXCEPT !.completion = @ - 1]
    /\ rd' = [rd EXCEPT ![r].pc = "woken", ![r].ret = "0"]
    /\ last' = Quiet
    /\ UNCHANGED <<regmap, client_irq, mutex, mlock, buffer, irq_src, irq_depth,
                   irq_pc, pm>>

\* ... or -ERESTARTSYS when a signal arrives while it sleeps
ReadWaitInterrupted(r) ==
    /\ rd[r].pc = "waiting"
    /\ client_irq
    /\ data.completion = 0
    /\ rd' = [rd EXCEPT ![r].pc = "woken", ![r].ret = "ERESTARTSYS"]
    /\ last' = Quiet
    /\ UNCHANGED <<data, regmap, client_irq, mutex, mlock, buffer, irq_src,
                   irq_depth, irq_pc, pm>>

\* reinit_completion, line 390
ReadReinit(r) ==
    /\ rd[r].pc = "woken"
    /\ data' = [data EXCEPT !.completion = 0]
    /\ rd' = [rd EXCEPT ![r].pc = "relock"]
    /\ last' = Quiet
    /\ UNCHANGED <<regmap, client_irq, mutex, mlock, buffer, irq_src, irq_depth,
                   irq_pc, pm>>

\* no interrupt line: sx9310_wait_for_sample
ReadWaitSample(r) ==
    /\ rd[r].pc = "waiting"
    /\ ~client_irq
    /\ \E f \in Faults(1) :
          LET c == sx9310_wait_for_sample(Ctx, f)
          IN /\ Used(c, f)
             /\ rd' = [rd EXCEPT ![r].pc = "relock", ![r].ret = c.ret]
             /\ last' = Did("wait_for_sample", r, rd[r].chan, "", c)
    /\ UNCHANGED <<data, regmap, client_irq, mutex, mlock, buffer, irq_src,
                   irq_depth, irq_pc, pm>>

ReadFinish(r, raws) ==
    /\ rd[r].pc = "relock"
    /\ mutex = "free"
    /\ \E f \in Faults(4), bytes \in raws :
          LET c == ReadProximityFinish(Ctx, f, rd[r].chan, rd[r].ret, bytes)
          IN /\ Used(c, f)
             /\ Commit("read", c)
             /\ last' = Did("read_proximity", r, rd[r].chan, ReadEntry(rd[r].ret), c)
    /\ rd' = [rd EXCEPT ![r] = [pc |-> "idle", chan |-> 0, ret |-> "0"]]
    /\ mlock' = "free"
    /\ UNCHANGED <<client_irq, buffer, irq_src, irq_pc, pm>>

(* --- sx9310_write_event_config, sx9310_set_samp_freq ---------------- *)
\* chans: the channels whose event is configured.  last.arg: the requested
\* state, and chan_event, PROX_CTRL0 and IRQ_MSK on entry
WriteEventConfigOn(chans) ==
    /\ mutex = "free"
    /\ \E ch \in chans, state \in BOOLEAN, f \in Faults(3) :
          LET c == sx9310_write_event_config(Ctx, f, ch, state)
          IN /\ Used(c, f)
             /\ Commit("event", c)
             /\ last' = Did("write_event_config", 0, ch,
                             [state |-> state, chan_event |-> data.chan_event,
                              ctrl0 |-> regmap.PROX_CTRL0,
                              irq_msk |-> regmap.IRQ_MSK], c)
    /\ UNCHANGED <<client_irq, mlock, buffer, rd, irq_src, irq_pc, pm>>

WriteEventConfig == WriteEventConfigOn(Channels)

\* a call that passed the test of line 607 and was overtaken by another call
\* before it took the mutex: the locked part runs whatever the state is now
WriteEventConfigOvertaken(chans) ==
    /\ mutex = "free"
    /\ \E ch \in chans, state \in BOOLEAN, f \in Faults(3) :
          LET c == write_event_config_locked(Ctx, f, ch, state)
          IN /\ Used(c, f)
             /\ Commit("event", c)
             /\ last' = Did("write_event_config_locked", 0, ch,
                             [state |-> state, chan_event |-> data.chan_event,
                              ctrl0 |-> regmap.PROX_CTRL0,
                              irq_msk |-> regmap.IRQ_MSK], c)
    /\ UNCHANGED <<client_irq, mlock, buffer, rd, irq_src, irq_pc, pm>>

SetSampFreq ==
    /\ mutex = "free"
    /\ \E v \in SampFreqInputs, f \in Faults(1) :
          LET c == sx9310_set_samp_freq(Ctx, f, v[1], v[2])
          IN /\ Used(c, f)
             /\ Commit("samp_freq", c)
             /\ last' = Did("set_samp_freq", 0, 0, v, c)
    /\ UNCHANGED <<client_irq, mlock, buffer, rd, irq_src, irq_pc, pm>>

(* --- buffer hooks, called by the IIO core under its lock ------------ *)
\* last.arg of the buffer hooks: the scan mask, and the masks and PROX_CTRL0
\* on entry
BufferEntry(m) ==
    [active_scan_mask |-> m, chan_read |-> data.chan_read,
     chan_event |-> data.chan_event, ctrl0 |-> regmap.PROX_CTRL0]

BufferPreenable ==
    /\ mlock = "free"
    /\ ~buffer.enabled
    /\ mutex = "free"
    /\ \E m \in ChanMasks \ {0}, f \in Faults(1) :
          LET c == sx9310_buffer_preenable(Ctx, f, m)
          IN /\ Used(c, f)
             /\ Commit("preenable", c)
             /\ buffer' = IF c.ret = "0"
                          THEN [enabled |-> TRUE, active_scan_mask |-> m,
                                poll |-> FALSE]
                          ELSE buffer
             /\ last' = Did("buffer_preenable", 0, 0, BufferEntry(m), c)
    /\ UNCHANGED <<client_irq, mlock, rd, irq_src, irq_pc, pm>>

\* the core detaches the consumer first, which waits for a running handler
BufferPostdisable ==
    /\ mlock = "free"
    /\ buffer.enabled
    /\ ~buffer.poll
    /\ mutex = "free"
    /\ \E f \in Faults(1) :
          LET c == sx9310_buffer_postdisable(Ctx, f)
          IN /\ Used(c, f)
             /\ Commit("postdisable", c)
             /\ last' = Did("buffer_postdisable", 0, 0,
                             BufferEntry(buffer.active_scan_mask), c)
    /\ buffer' = NoBuffer
    /\ UNCHANGED <<client_irq, mlock, rd, irq_src, irq_pc, pm>>

(* --- sx9310_set_trigger_state -------------------------------------- *)
\* the trigger is registered only when an interrupt line exists.
\* last.arg: the requested state, and trigger_enabled and IRQ_MSK on entry
SetTriggerState ==
    /\ client_irq
    /\ mutex = "free"
    /\ \E state \in BOOLEAN, f \in Faults(1) :
          LET c == sx9310_set_trigger_state(Ctx, f, state)
          IN /\ Used(c, f)
             /\ Commit("trigger", c)
             /\ last' = Did("set_trigger_state", 0, 0,
                             [state |-> state,
                              trigger_enabled |-> data.trigger_enabled,
                              irq_msk |-> regmap.IRQ_MSK], c)
    /\ UNCHANGED <<client_irq, mlock, buffer, rd, irq_src, irq_pc, pm>>

(* --- the device raising interrupt causes ---------------------------- *)
\* a cause is latched in IRQ_SRC only while IRQ_MSK enables it
IrqCauses == {SX9310_CONVDONE_IRQ, SX9310_FAR_IRQ, SX9310_CLOSE_IRQ}

\* causes: the interrupt causes the sensor may assert
HwRaise(causes) ==
    /\ \E cause \in causes :
          /\ BitAnd(regmap.IRQ_MSK, cause) # 0
          /\ BitAnd(irq_src, cause) = 0
          /\ cause = SX9310_CONVDONE_IRQ => data.completion < MaxDone
          /\ irq_src' = BitOr(irq_src, cause)
    /\ last' = Quiet
    /\ UNCHANGED <<data, regmap, client_irq, mutex, mlock, buffer, rd,
                   irq_depth, irq_pc, pm>>

(* --- the two interrupt stages ---------------------------------------- *)
\* IRQF_ONESHOT: the line stays masked until the thread has run
IrqHandler ==
    /\ client_irq
    /\ irq_depth = 0
    /\ irq_src # 0
    /\ irq_pc = "idle"
    /\ irq_pc' = "wake"
    /\ last' = Did("irq_handler", 0, 0, "", sx9310_irq_handler(Ctx))
    /\ buffer' = IF data.trigger_enabled /\ buffer.enabled
                 THEN [buffer EXCEPT !.poll = TRUE] ELSE buffer
    /\ UNCHANGED <<data, regmap, client_irq, mutex, mlock, rd, irq_src,
                   irq_depth, pm>>

(* --- sx9310_trigger_handler ------------------------------------------ *)
\* runs in the consumer's thread after iio_trigger_poll; its
\* iio_trigger_notify_done lets the trigger poll again
TriggerHandler ==
    /\ buffer.poll
    /\ mutex = "free"
    /\ \E f \in ScanFaults, bytes \in RawSamples :
          LET c == sx9310_trigger_handler(Ctx, f, buffer.active_scan_mask, bytes)
          IN /\ \A i \in ScanSlots : i > c.n => f[i]
             /\ Commit("trigger_handler", c)
             /\ last' = Did("trigger_handler", 0, 0, buffer.active_scan_mask, c)
    /\ buffer' = [buffer EXCEPT !.poll = FALSE]
    /\ UNCHANGED <<client_irq, mlock, rd, irq_src, irq_pc, pm>>

\* stats: the values STAT0 may hold; losts: the sets of channels whose event
\* may be dropped; a successful read of IRQ_SRC clears it.
\* last.arg: IRQ_SRC and chan_prox_stat on entry
IrqThread(stats, losts) ==
    /\ irq_pc = "wake"
    /\ mutex = "free"
    /\ \E f \in Faults(2), stat \in stats, lost \in losts :
          LET c == sx9310_irq_thread_handler(Ctx, f, irq_src, stat, lost)
          IN /\ Used(c, f)
             /\ Commit("irq_thread", c)
             /\ irq_src' = IF RegOps(c.log)[1].ok THEN 0 ELSE irq_src
             /\ last' = Did("irq_thread_handler", 0, 0,
                             [src |-> irq_src,
                              chan_prox_stat |-> data.chan_prox_stat], c)
    /\ irq_pc' = "idle"
    /\ UNCHANGED <<client_irq, mlock, buffer, rd, pm>>

(* --- sx9310_suspend / sx9310_resume --------------------------------- *)
\* a failed suspend callback aborts the transition: resume is not called.
\* last.arg: for suspend, PROX_CTRL0 and the disable depth on entry; for
\* resume, the step that came before it
Suspend ==
    /\ pm = "on"
    /\ irq_depth < MaxDepth
    /\ mutex = "free"
    /\ \E f \in Faults(3) :
          LET c == sx9310_suspend(Ctx, f)
          IN /\ Used(c, f)
             /\ Commit("suspend", c)
             /\ pm' = IF c.ret = "0" THEN "suspended" ELSE "on"
             /\ last' = Did("suspend", 0, 0,
                             [ctrl0 |-> regmap.PROX_CTRL0, irq_depth |-> irq_depth], c)
    /\ UNCHANGED <<client_irq, mlock, buffer, rd, irq_src, irq_pc>>

Resume ==
    /\ pm = "suspended"
    /\ mutex = "free"
    /\ \E f \in Faults(2) :
          LET c == sx9310_resume(Ctx, f)
          IN /\ Used(c, f)
             /\ Commit("resume", c)
             /\ last' = Did("resume", 0, 0, last.op, c)
    /\ pm' = "on"
    /\ UNCHANGED <<client_irq, mlock, buffer, rd, irq_src, irq_pc>>

(* --- the channel enable helpers, called with the mutex held --------- *)
\* last.arg: the masks and PROX_CTRL0 on entry
Entry ==
    [chan_read |-> data.chan_read, chan_event |-> data.chan_event,
     ctrl0 |-> regmap.PROX_CTRL0]

GetReadChannel ==
    /\ mutex = "free"
    /\ \E ch \in Channels, f \in Faults(1) :
          LET c == mutex_unlock(sx9310_get_read_channel(mutex_lock(Ctx), f, ch))
          IN Used(c, f) /\ Commit("chan_en", c) /\ last' = Did("get_read_channel", 0, ch, Entry, c)
    /\ UNCHANGED <<client_irq, mlock, buffer, rd, irq_src, irq_pc, pm>>

PutReadChannel ==
    /\ mutex = "free"
    /\ \E ch \in Channels, f \in Faults(1) :
          LET c == mutex_unlock(sx9310_put_read_channel(mutex_lock(Ctx), f, ch))
          IN Used(c, f) /\ Commit("chan_en", c) /\ last' = Did("put_read_channel", 0, ch, Entry, c)
    /\ UNCHANGED <<client_irq, mlock, buffer, rd, irq_src, irq_pc, pm>>

GetEventChannel ==
    /\ mutex = "free"
    /\ \E ch \in Channels, f \in Faults(1) :
          LET c == mutex_unlock(sx9310_get_event_channel(mutex_lock(Ctx), f, ch))
          IN Used(c, f) /\ Commit("chan_en", c) /\ last' = Did("get_event_channel", 0, ch, Entry, c)
    /\ UNCHANGED <<client_irq, mlock, buffer, rd, irq_src, irq_pc, pm>>

PutEventChannel ==
    /\ mutex = "free"
    /\ \E ch \in Channels, f \in Faults(1) :
          LET c == mutex_unlock(sx9310_put_event_channel(mutex_lock(Ctx), f, ch))
          IN Used(c, f) /\ Commit("chan_en", c) /\ last' = Did("put_event_channel", 0, ch, Entry, c)
    /\ UNCHANGED <<client_irq, mlock, buffer, rd, irq_src, irq_pc, pm>>

(* ------------------------------------------------------------------ *)
(* Specifications.  Spec is the driver under every interleaving of its *)
(* entry points; the others restrict it to the handlers that touch the *)
(* state one group of properties is about, from the same initial state.*)
(* ------------------------------------------------------------------ *)
Next ==
    \/ \E r \in Readers : ReadCall(r)
    \/ \E r \in Readers : ReadRawBusy(r)
    \/ \E r \in Readers : ReadStart(r, Channels)
    \/ \E r \in Readers : ReadWaitCompletion(r)
    \/ \E r \in Readers : ReadWaitInterrupted(r)
    \/ \E r \in Readers : ReadReinit(r)
    \/ \E r \in Readers : ReadWaitSample(r)
    \/ \E r \in Readers : ReadFinish(r, AllSamples)
    \/ WriteEventConfig
    \/ SetSampFreq
    \/ BufferPreenable
    \/ BufferPostdisable
    \/ SetTriggerState
    \/ HwRaise(IrqCauses)
    \/ IrqHandler
    \/ IrqThread(StatValues, SUBSET Channels)
    \/ TriggerHandler
    \/ Suspend
    \/ Resume

Spec == Init /\ [][Next]_vars

\* the channel enable helpers under every sequence of calls
NextChanEn ==
    \/ GetReadChannel
    \/ PutReadChannel
    \/ GetEventChannel
    \/ PutEventChannel

SpecChanEn == Init /\ [][NextChanEn]_vars

\* event subscription and the two interrupt stages
NextEvents ==
    \/ WriteEventConfig
    \/ HwRaise(IrqCauses)
    \/ IrqHandler
    \/ IrqThread(StatValues, SUBSET Channels)

SpecEvents == Init /\ [][NextEvents]_vars

\* direct mode admits one caller of sx9310_read_raw at a time (SpecSerial has
\* them all): where the other handlers are the subject, one caller reads
Caller == CHOOSE r \in Readers : TRUE

\* the synchronous read with the handlers that share its registers
NextRead ==
    \/ ReadStart(Caller, ReadChannels)
    \/ ReadWaitCompletion(Caller)
    \/ ReadWaitInterrupted(Caller)
    \/ ReadReinit(Caller)
    \/ ReadWaitSample(Caller)
    \/ ReadFinish(Caller, RawSamples)
    \/ WriteEventConfig
    \/ SetTriggerState
    \/ HwRaise({SX9310_CONVDONE_IRQ})
    \/ IrqHandler
    \/ IrqThread({0}, {{}})

SpecRead == Init /\ [][NextRead]_vars

\* suspend and resume with the writers of PROX_CTRL0
NextPM ==
    \/ Suspend
    \/ Resume
    \/ SetSampFreq
    \/ WriteEventConfig

SpecPM == Init /\ [][NextPM]_vars

\* the polled read over the values the sensor may return and the scan periods
NextDecode ==
    \/ ReadStart(Caller, Channels)
    \/ ReadWaitSample(Caller)
    \/ ReadFinish(Caller, AllSamples)
    \/ SetSampFreq

\* a device probed without an interrupt line
InitPolled == Init /\ ~client_irq

SpecDecode == InitPolled /\ [][NextDecode]_vars

\* the two interrupt stages with every cause: events subscribed, the trigger
\* switched on and off
NextIrq ==
    \/ WriteEventConfig
    \/ SetTriggerState
    \/ HwRaise(IrqCauses)
    \/ IrqHandler
    \/ IrqThread({0, 1}, {{}})

SpecIrq == Init /\ [][NextIrq]_vars

\* the triggered buffer: its hooks, the trigger and the handler it polls
NextBuffer ==
    \/ BufferPreenable
    \/ BufferPostdisable
    \/ SetTriggerState
    \/ WriteEventConfig
    \/ HwRaise({SX9310_CONVDONE_IRQ})
    \/ IrqHandler
    \/ IrqThread({0}, {{}})
    \/ TriggerHandler

SpecBuffer == Init /\ [][NextBuffer]_vars

\* concurrent callers of sx9310_read_raw, in direct and in buffer mode
NextSerial ==
    \/ \E r \in Readers : ReadCall(r)
    \/ \E r \in Readers : ReadRawBusy(r)
    \/ \E r \in Readers : ReadStart(r, ReadChannels)
    \/ \E r \in Readers : ReadWaitCompletion(r)
    \/ \E r \in Readers : ReadWaitInterrupted(r)
    \/ \E r \in Readers : ReadReinit(r)
    \/ \E r \in Readers : ReadWaitSample(r)
    \/ \E r \in Readers : ReadFinish(r, RawSamples)
    \/ BufferPreenable
    \/ BufferPostdisable
    \/ HwRaise({SX9310_CONVDONE_IRQ})
    \/ IrqHandler
    \/ IrqThread({0}, {{}})

SpecSerial == Init /\ [][NextSerial]_vars

(* ------------------------------------------------------------------ *)
(* Properties                                                          *)
(* ------------------------------------------------------------------ *)
AllChans == 0..(SX9310_NUM_CHANNELS - 1)

\* the channels of a mask
Chans(mask) == {ch \in AllChans : TestBit(mask, ch)}

\* the channels enabled in a PROX_CTRL0 value
EnabledChans(ctrl0) == {ch \in AllChans : TestBit(ctrl0, ch)}

ChanEnOps ==
    {"get_read_channel", "put_read_channel", "get_event_channel",
     "put_event_channel"}

\* the masks a channel enable helper asks for, from the masks on entry
WantedRead(op, ch, entry) ==
    IF op = "get_read_channel" THEN Chans(entry.chan_read) \cup {ch}
    ELSE IF op = "put_read_channel" THEN Chans(entry.chan_read) \ {ch}
    ELSE Chans(entry.chan_read)

WantedEvent(op, ch, entry) ==
    IF op = "get_event_channel" THEN Chans(entry.chan_event) \cup {ch}
    ELSE IF op = "put_event_channel" THEN Chans(entry.chan_event) \ {ch}
    ELSE Chans(entry.chan_event)

IsCtrl0Update(e) == e.op = "update_bits" /\ e.reg = "PROX_CTRL0"

IsIrqMskUpdate(e) == e.op = "update_bits" /\ e.reg = "IRQ_MSK"

IsStatRead(e) == e.op = "read" /\ e.reg = "STAT0"

IsBulkRead(e) == e.op = "bulk_read"

IsEvent(e) == e.op = "iio_push_event"

\* C1: whenever the device is not between suspend and the matching resume,
\* the sensor-enable field of PROX_CTRL0 equals chan_read | chan_event.
C1_EnableFieldIsUnion ==
    pm = "on" =>
        EnabledChans(regmap.PROX_CTRL0)
            = Chans(data.chan_read) \cup Chans(data.chan_event)

\* C2: a channel enable helper writes the enable field exactly when the union
\* of the two masks it asks for differs from the union on entry, then once,
\* with the new union; a repeated acquire, and an acquire for one purpose of
\* a channel held for the other, write nothing.
C2_WriteOnlyOnTransition ==
    last.op \in ChanEnOps =>
        LET ops == RegOps(last.log)
            before == Chans(last.arg.chan_read) \cup Chans(last.arg.chan_event)
            wanted == WantedRead(last.op, last.chan, last.arg)
                        \cup WantedEvent(last.op, last.chan, last.arg)
        IN /\ Len(ops) <= 1
           /\ (Len(ops) = 1) <=> (wanted # before)
           /\ Len(ops) = 1 =>
                /\ IsCtrl0Update(ops[1])
                /\ ops[1].mask = SX9310_REG_PROX_CTRL0_SENSOREN_MASK
                /\ Chans(ops[1].val) = wanted
                /\ ops[1].ok => EnabledChans(regmap.PROX_CTRL0) = wanted
           /\ (last.op \in {"get_read_channel", "get_event_channel"}
                 /\ last.chan \in before) => ops = <<>>

C2_Witness ==
    /\ last.op = "get_event_channel"
    /\ last.chan \in Chans(last.arg.chan_read)
    /\ last.chan \notin Chans(last.arg.chan_event)
    /\ last.chan \in Chans(data.chan_event)
    /\ RegOps(last.log) = <<>>

\* C3: releasing a channel held in both masks from one of them writes
\* nothing, keeps it in the other mask and leaves its bit set in the enable
\* field; a release clears an enable bit only of the channel released, and
\* only when that channel leaves the last mask holding it.
C3_ReleaseKeepsSharedChannel ==
    last.op \in {"put_read_channel", "put_event_channel"} =>
        LET ch == last.chan
            both == Chans(last.arg.chan_read) \cap Chans(last.arg.chan_event)
            after == Chans(data.chan_read) \cup Chans(data.chan_event)
        IN /\ ch \in both =>
                /\ RegOps(last.log) = <<>>
                /\ last.ret = "0"
                /\ ch \in after
                /\ ch \in EnabledChans(regmap.PROX_CTRL0)
                /\ last.op = "put_read_channel" => ch \notin Chans(data.chan_read)
                /\ last.op = "put_event_channel" => ch \notin Chans(data.chan_event)
           /\ \A d \in EnabledChans(last.arg.ctrl0) \ EnabledChans(regmap.PROX_CTRL0) :
                d = ch /\ d \notin both /\ d \notin after

C3_Witness ==
    /\ last.op = "put_read_channel"
    /\ last.chan \in Chans(last.arg.chan_read) \cap Chans(last.arg.chan_event)
    /\ last.chan \notin Chans(data.chan_read)
    /\ last.chan \in EnabledChans(regmap.PROX_CTRL0)

\* C4: when the register update of a channel enable helper fails, the helper
\* returns the error and chan_read, chan_event and the register are as on
\* entry; otherwise it returns 0 and the masks are the ones asked for.
C4_NoPartialCommit ==
    last.op \in ChanEnOps =>
        LET ops == RegOps(last.log)
        IN IF ops # <<>> /\ ~ops[1].ok
           THEN /\ last.ret = "EIO"
                /\ data.chan_read = last.arg.chan_read
                /\ data.chan_event = last.arg.chan_event
                /\ regmap.PROX_CTRL0 = last.arg.ctrl0
           ELSE /\ last.ret = "0"
                /\ Chans(data.chan_read) = WantedRead(last.op, last.chan, last.arg)
                /\ Chans(data.chan_event) = WantedEvent(last.op, last.chan, last.arg)

C4_Witness ==
    /\ last.op = "get_read_channel"
    /\ last.ret = "EIO"
    /\ last.chan \notin Chans(data.chan_read)
    /\ data.chan_event # 0

\* the events pushed and the STAT0 reads made by the latest step
Events == SelectSeq(last.log, IsEvent)

StatReads == SelectSeq(last.log, IsStatRead)

\* C5: when the interrupt thread's read of STAT0 succeeds, one event is pushed
\* for each channel whose status bit differs from chan_prox_stat and that is
\* in chan_event, none for any other channel, and chan_prox_stat becomes the
\* value read whether or not the events were delivered; from chan_prox_stat
\* 0b0000, chan_event 0b0011 and STAT0 0b0101: one event, for channel 0.
C5_EventsAreMaskedChanges ==
    (last.op = "irq_thread_handler" /\ StatReads # <<>> /\ StatReads[1].ok) =>
        LET val == StatReads[1].val
            changed == {ch \in Chans(data.chan_event) :
                          TestBit(last.arg.chan_prox_stat, ch) # TestBit(val, ch)}
        IN /\ \A ch \in AllChans :
                Cardinality({i \in DOMAIN Events : Events[i].chan = ch})
                    = IF ch \in changed THEN 1 ELSE 0
           /\ data.chan_prox_stat = val
           /\ (last.arg.chan_prox_stat = 0 /\ data.chan_event = 3 /\ val = 5) =>
                Len(Events) = 1 /\ Events[1].chan = 0

C5_Witness ==
    /\ last.op = "irq_thread_handler"
    /\ last.arg.chan_prox_stat = 0
    /\ data.chan_event = 3
    /\ data.chan_prox_stat = 5
    /\ Len(Events) = 1
    /\ Events[1].chan = 0
    /\ ~Events[1].ok

\* C6 as stated: an event for a channel whose new status bit is 1 is rising,
\* one for a channel whose new status bit is 0 is falling.
C6_SetBitIsRising ==
    last.op = "irq_thread_handler" =>
        \A i \in DOMAIN Events :
            Events[i].dir = IF TestBit(data.chan_prox_stat, Events[i].chan)
                            THEN "RISING" ELSE "FALLING"

\* C6: an event for a channel whose new status bit is 1 is falling, one for a
\* channel whose new status bit is 0 is rising; from chan_prox_stat 0b0000,
\* chan_event 0b0011 and STAT0 0b0101 the single event is (channel 0,
\* falling).
C6_SetBitIsFalling ==
    last.op = "irq_thread_handler" =>
        /\ \A i \in DOMAIN Events :
              Events[i].dir = IF TestBit(data.chan_prox_stat, Events[i].chan)
                              THEN "FALLING" ELSE "RISING"
        /\ (last.arg.chan_prox_stat = 0 /\ data.chan_event = 3
              /\ data.chan_prox_stat = 5 /\ Events # <<>>) =>
              Events[1].chan = 0 /\ Events[1].dir = "FALLING"

C6_Witness ==
    /\ last.op = "irq_thread_handler"
    /\ last.arg.chan_prox_stat = 0
    /\ data.chan_event = 3
    /\ data.chan_prox_stat = 5
    /\ Len(Events) = 1
    /\ Events[1].chan = 0
    /\ Events[1].dir = "FALLING"
    /\ Events[1].ok

\* the 16-bit value of the bulk read of the latest step
BulkReads == SelectSeq(last.log, IsBulkRead)

Raw == BulkReads[1].val[1] * 256 + BulkReads[1].val[2]

ReadSucceeded == last.op = "read_proximity" /\ last.ret = "IIO_VAL_INT"

C8_SuspendResumeRoundTrip ==
    [][(last.op = "suspend" /\ last.ret = "0"
          /\ last'.op = "resume" /\ last'.ret = "0") =>
            /\ regmap'.PROX_CTRL0 = last.arg.ctrl0
            /\ irq_depth' = last.arg.irq_depth
            /\ (irq_depth' = 0) <=> (last.arg.irq_depth = 0)]_vars

C8_Witness ==
    /\ last.op = "resume"
    /\ last.arg = "suspend"
    /\ last.ret = "0"
    /\ client_irq
    /\ irq_depth = 0
    /\ BitAnd(regmap.PROX_CTRL0, SX9310_REG_PROX_CTRL0_SENSOREN_MASK) = 2
    /\ BitAnd(regmap.PROX_CTRL0, SX9310_REG_PROX_CTRL0_SCANPERIOD_MASK) # 0

IsDisable(e) == IsIrqMskUpdate(e) /\ e.val = 0

ConvdoneEnabled == BitAnd(regmap.IRQ_MSK, SX9310_CONVDONE_IRQ) # 0

\* the latest step is sx9310_read_proximity returning an error after
\* sx9310_get_read_channel succeeded: in the part before the wait that is a
\* failure to enable the cause, in the part after it any return but a sample
ReadFailedAfterAcquire ==
    /\ last.op = "read_proximity"
    /\ IF last.arg.wait = "start"
       THEN last.ret # "0" /\ SelectSeq(last.log, IsIrqMskUpdate) # <<>>
       ELSE last.ret # "IIO_VAL_INT"

\* C9 as stated: when sx9310_read_proximity returns an error after acquiring
\* the channel, the channel is not in chan_read, its enable bit is set only if
\* it is in chan_event, and the conversion-complete cause is off in IRQ_MSK.
C9_FailedReadLeavesClean ==
    ReadFailedAfterAcquire =>
        /\ last.chan \notin Chans(data.chan_read)
        /\ last.chan \in EnabledChans(regmap.PROX_CTRL0) =>
              last.chan \in Chans(data.chan_event)
        /\ ~ConvdoneEnabled

\* C9: when sx9310_read_proximity returns an error after acquiring the
\* channel, each unwind step whose register update did not fail has taken
\* effect and each one whose update failed has changed nothing: the channel is
\* left in chan_read exactly when the update releasing it failed, and otherwise
\* its enable bit is set only if it is in chan_event; after the wait the cause
\* is disabled once and is off unless that update failed, which leaves IRQ_MSK
\* as it was; when enabling the cause was the failure, IRQ_MSK is as on entry.
C9_FailedReadUnwinds ==
    ReadFailedAfterAcquire =>
        LET ch == last.chan
            ops == RegOps(last.log)
            puts == SelectSeq(ops, IsCtrl0Update)
            putFailed == puts # <<>> /\ ~puts[Len(puts)].ok
            disables == SelectSeq(ops, IsDisable)
        IN /\ putFailed <=> ch \in Chans(data.chan_read)
           /\ ~putFailed => (ch \in EnabledChans(regmap.PROX_CTRL0) =>
                               ch \in Chans(data.chan_event))
           /\ data.chan_event = last.arg.chan_event
           /\ IF last.arg.wait = "start" \/ ~client_irq
              THEN disables = <<>> /\ regmap.IRQ_MSK = last.arg.irq_msk
              ELSE /\ Len(disables) = 1
                   /\ disables[1].mask = SX9310_CONVDONE_IRQ
                   /\ IF disables[1].ok THEN ~ConvdoneEnabled
                      ELSE regmap.IRQ_MSK = last.arg.irq_msk

C9_Witness ==
    /\ last.op = "read_proximity"
    /\ last.arg.wait = "0"
    /\ last.ret = "EIO"
    /\ BulkReads # <<>>
    /\ ~BulkReads[1].ok
    /\ Len(SelectSeq(last.log, IsDisable)) = 1
    /\ Len(SelectSeq(last.log, IsCtrl0Update)) = 1
    /\ \A i \in DOMAIN RegOps(last.log) :
          RegOps(last.log)[i].ok <=> ~IsBulkRead(RegOps(last.log)[i])
    /\ last.chan \notin Chans(data.chan_read)
    /\ last.chan \notin EnabledChans(regmap.PROX_CTRL0)
    /\ ~ConvdoneEnabled

\* C10: when the wait of sx9310_read_proximity was cancelled, the function
\* takes the mutex, disables the conversion-complete cause, releases the
\* channel (writing the enable field unless the channel is in chan_event),
\* drops the mutex and returns -ERESTARTSYS, whatever the two unwind calls
\* returned; each of the two takes effect when its register update succeeds.
C10_CancelledWaitUnwinds ==
    (last.op = "read_proximity" /\ last.arg.wait = "ERESTARTSYS") =>
        LET log == last.log
            ops == RegOps(log)
        IN /\ last.ret = "ERESTARTSYS"
           /\ log[1].op = "mutex_lock"
           /\ log[Len(log)].op = "mutex_unlock"
           /\ mutex = "free"
           /\ Len(ops) \in {1, 2}
           /\ IsDisable(ops[1])
           /\ ops[1].mask = SX9310_CONVDONE_IRQ
           /\ ops[1].held
           /\ ops[1].ok => ~ConvdoneEnabled
           /\ Len(ops) = 2 =>
                /\ IsCtrl0Update(ops[2])
                /\ ops[2].held
                /\ last.chan \notin Chans(ops[2].val)
           /\ Len(ops) = 1 => last.chan \in Chans(data.chan_event)
           /\ (Len(ops) = 1 \/ ops[2].ok) => last.chan \notin Chans(data.chan_read)

C10_Witness ==
    /\ last.op = "read_proximity"
    /\ last.arg.wait = "ERESTARTSYS"
    /\ last.ret = "ERESTARTSYS"
    /\ Len(RegOps(last.log)) = 2
    /\ RegOps(last.log)[1].ok
    /\ ~RegOps(last.log)[2].ok
    /\ ~ConvdoneEnabled
    /\ last.chan \in Chans(data.chan_read)

(* --- C11: only a completion signalled after the read began ends its wait *)
\* a synchronous read has just enabled its channel and the conversion-complete
\* cause, released the mutex and is about to wait on the completion
ReadEntersWait ==
    /\ client_irq
    /\ last.op = "read_proximity"
    /\ last.arg.wait = "start"
    /\ last.ret = "0"

\* C11: when a synchronous read begins its wait, no complete() issued before
\* the read started is still pending on the completion, so the wait cannot
\* return at once on a signal older than the read
C11_NoStaleCompletion ==
    ReadEntersWait => data.completion = 0

(* --- C12: one synchronous acquisition at a time ---------------------- *)
\* the callers of sx9310_read_raw that are between the mutex_unlock before
\* the wait and the mutex_lock after it
InWait == {r \in Readers : rd[r].pc \in {"waiting", "woken", "relock"}}

\* C12: at most one synchronous acquisition is waiting on, or about to reset,
\* the shared completion: two concurrent calls of sx9310_read_raw are never
\* both between the unlock that starts the wait and the lock that ends it
C12_OneReadInWait ==
    Cardinality(InWait) <= 1

\* one caller is in its wait while another has called sx9310_read_raw
C12_Witness ==
    \E r1, r2 \in Readers :
        /\ r1 # r2
        /\ rd[r1].pc = "waiting"
        /\ rd[r2].pc = "claim"
        /\ mutex = "free"

(* --- C13: register accesses and the mutex ---------------------------- *)
\* C13: every register access a handler makes after initialization is made
\* while that handler holds data->mutex
C13_RegisterAccessUnderMutex ==
    \A i \in 1..Len(last.log) :
        IsRegOp(last.log[i]) => last.log[i].held

(* --- C14: the polled synchronous read of channel 1 -------------------- *)
IsSleep(e) == e.op = "msleep"

\* the first part of a read of channel 1 that found chan_read empty and the
\* channel not subscribed for events, and went on to wait
PolledStart ==
    /\ ~client_irq
    /\ last.op = "read_proximity"
    /\ last.arg.wait = "start"
    /\ last.chan = 1
    /\ last.ret = "0"
    /\ last.arg.chan_read = 0
    /\ ~TestBit(last.arg.chan_event, 1)

\* the wait of such a read, with no interrupt line
PolledWait ==
    /\ ~client_irq
    /\ last.op = "wait_for_sample"
    /\ last.chan = 1
    /\ last.ret = "0"

\* the second part of such a read, returning a value
PolledFinish ==
    /\ ~client_irq
    /\ last.op = "read_proximity"
    /\ last.arg.wait = "0"
    /\ last.chan = 1
    /\ last.ret = "IIO_VAL_INT"
    /\ last.arg.chan_read = BIT(1)
    /\ ~TestBit(last.arg.chan_event, 1)

\* a bulk read is of a value register, named by its address
NoIrqMskAccess ==
    \A i \in 1..Len(last.log) :
        IsRegOp(last.log[i]) /\ ~IsBulkRead(last.log[i]) => last.log[i].reg # "IRQ_MSK"

\* C14: with no interrupt line, chan_read empty and the channel not subscribed
\* for events, a synchronous read of channel 1 makes one enable-field write
\* that sets bit 1, then sleeps the scan period the scan-period field of
\* PROX_CTRL0 selects at that time, then makes one bulk read of the channel's
\* value register and one enable-field write that clears bit 1, and returns
\* the decoded value; it never waits on the completion or writes IRQ_MSK
C14_PolledReadSequence ==
    [][ LET r == last'.who
        IN /\ PolledStart' =>
                 /\ rd[r].pc \in {"idle", "claim"}
                 /\ rd'[r].pc = "waiting"
                 /\ Len(SelectSeq(last'.log, IsCtrl0Update)) = 1
                 /\ RegOps(last'.log) = SelectSeq(last'.log, IsCtrl0Update)
                 /\ RegOps(last'.log)[1].mask = SX9310_REG_PROX_CTRL0_SENSOREN_MASK
                 /\ TestBit(RegOps(last'.log)[1].val, 1)
                 /\ TestBit(regmap'.PROX_CTRL0, 1)
           /\ PolledWait' =>
                 /\ rd[r].pc = "waiting"
                 /\ rd'[r].pc = "relock"
                 /\ SelectSeq(last'.log, IsSleep) =
                       << [op |-> "msleep",
                           ms |-> sx9310_scan_period_table[
                                     FieldGetScanPeriod(regmap.PROX_CTRL0) + 1]] >>
                 /\ last'.log[Len(last'.log)].op = "msleep"
                 /\ NoIrqMskAccess'
                 /\ data' = data
           /\ PolledFinish' =>
                 /\ rd[r].pc = "relock"
                 /\ rd'[r].pc = "idle"
                 /\ Len(SelectSeq(last'.log, IsBulkRead)) = 1
                 /\ Len(SelectSeq(last'.log, IsCtrl0Update)) = 1
                 /\ \E i, j \in 1..Len(last'.log) :
                       /\ i < j
                       /\ IsBulkRead(last'.log[i])
                       /\ last'.log[i].reg = ChanAddress(1)
                       /\ IsCtrl0Update(last'.log[j])
                       /\ last'.log[j].mask = SX9310_REG_PROX_CTRL0_SENSOREN_MASK
                       /\ ~TestBit(last'.log[j].val, 1)
                       /\ last'.val = DecodeSample(1, last'.log[i].val)
                 /\ ~TestBit(regmap'.PROX_CTRL0, 1)
                 /\ NoIrqMskAccess'
                 /\ data'.completion = data.completion
           /\ ~client_irq => \A q \in Readers : rd'[q].pc # "woken"
      ]_vars

\* such a read has returned a negative value after sleeping a scan period
\* other than the first of the table
C14_Witness ==
    /\ PolledFinish
    /\ last.val < 0
    /\ FieldGetScanPeriod(regmap.PROX_CTRL0) # 0

(* --- C15: the trigger handler notifies the trigger once --------------- *)
IsNotifyDone(e) == e.op = "iio_trigger_notify_done"

IsBufferPush(e) == e.op = "iio_push_to_buffers_with_timestamp"

TriggerHandlerRan == last.op = "trigger_handler"

\* one of the handler's channel reads failed
ScanFailed ==
    \E i \in 1..Len(last.log) : IsRegOp(last.log[i]) /\ ~last.log[i].ok

\* C15: every run of sx9310_trigger_handler notifies the trigger of the end of
\* the cycle exactly once, after it has released the mutex, whether or not a
\* channel read failed; when one failed, no record is pushed to the buffer
C15_NotifyOnceAfterUnlock ==
    TriggerHandlerRan =>
        /\ Len(SelectSeq(last.log, IsNotifyDone)) = 1
        /\ IsNotifyDone(last.log[Len(last.log)])
        /\ last.log[Len(last.log) - 1].op = "mutex_unlock"
        /\ mutex = "free"
        /\ ScanFailed => SelectSeq(last.log, IsBufferPush) = <<>>
        /\ ~ScanFailed => Len(SelectSeq(last.log, IsBufferPush)) = 1

\* a run whose second channel read failed
C15_Witness ==
    /\ TriggerHandlerRan
    /\ ScanFailed
    /\ Len(RegOps(last.log)) > 2
    /\ Len(SelectSeq(last.log, IsNotifyDone)) = 1

(* --- C16: chan_read across stream start and stop ---------------------- *)
EnableField == BitAnd(regmap.PROX_CTRL0, SX9310_REG_PROX_CTRL0_SENSOREN_MASK)

\* C16: after sx9310_buffer_preenable chan_read is the set of channels of the
\* active scan mask, chan_event is as before and the enable field is their
\* union; after sx9310_buffer_postdisable chan_read is empty, chan_event is as
\* before and the enable field is chan_event
C16_StreamSetsChanRead ==
    /\ last.op = "buffer_preenable" =>
          /\ data.chan_read = last.arg.active_scan_mask
          /\ data.chan_event = last.arg.chan_event
          /\ EnableField = BitOr(last.arg.active_scan_mask, data.chan_event)
    /\ last.op = "buffer_postdisable" =>
          /\ data.chan_read = 0
          /\ data.chan_event = last.arg.chan_event
          /\ EnableField = data.chan_event

\* what a buffer hook that set chan_read to new has done to the enable field:
\* written the new union where it differs from the one on entry, and left
\* PROX_CTRL0 alone where it does not
FieldFollows(new) ==
    IF BitOr(new, data.chan_event) # BitOr(last.arg.chan_read, last.arg.chan_event)
    THEN EnableField = BitOr(new, data.chan_event)
    ELSE regmap.PROX_CTRL0 = last.arg.ctrl0

\* C16 (amended): a buffer hook that returns 0 has set chan_read (to the scan
\* mask's channels on start, to empty on stop), kept chan_event, and made the
\* enable field the new union of the two unless the union is the one on
\* entry; a hook that returns an error has changed neither mask nor register
C16_StreamSetsChanReadOnSuccess ==
    /\ last.op = "buffer_preenable" /\ last.ret = "0" =>
          /\ data.chan_read = last.arg.active_scan_mask
          /\ data.chan_event = last.arg.chan_event
          /\ FieldFollows(last.arg.active_scan_mask)
    /\ last.op = "buffer_postdisable" /\ last.ret = "0" =>
          /\ data.chan_read = 0
          /\ data.chan_event = last.arg.chan_event
          /\ FieldFollows(0)
    /\ last.op \in {"buffer_preenable", "buffer_postdisable"} /\ last.ret # "0" =>
          /\ data.chan_read = last.arg.chan_read
          /\ data.chan_event = last.arg.chan_event
          /\ regmap.PROX_CTRL0 = last.arg.ctrl0

\* a stream over a channel that is not subscribed for events has stopped
\* while another channel is subscribed
C16_Witness ==
    /\ last.op = "buffer_postdisable"
    /\ last.ret = "0"
    /\ data.chan_event # 0
    /\ BitAnd(last.arg.chan_read, data.chan_event) = 0
    /\ last.arg.chan_read # 0
    /\ EnableField = data.chan_event

(* --- C17: sx9310_set_trigger_state ------------------------------------ *)
\* a register access of the last handler failed
RegFailed ==
    \E i \in 1..Len(last.log) : IsRegOp(last.log[i]) /\ ~last.log[i].ok

\* the last handler's only register access: an update of the
\* conversion-complete bit of IRQ_MSK to val
OnlyConvdoneUpdate(val) ==
    /\ Len(RegOps(last.log)) = 1
    /\ IsIrqMskUpdate(RegOps(last.log)[1])
    /\ RegOps(last.log)[1].mask = SX9310_CONVDONE_IRQ
    /\ RegOps(last.log)[1].val = val
    /\ RegOps(last.log)[1].held

\* C17: sx9310_set_trigger_state(true) enables the conversion-complete cause;
\* sx9310_set_trigger_state(false) disables it only if chan_read is empty and
\* does not touch IRQ_MSK otherwise; trigger_enabled becomes the requested
\* state iff no register update failed and is unchanged on failure
C17_TriggerStateAndCause ==
    last.op = "set_trigger_state" =>
        /\ last.arg.state =>
              /\ OnlyConvdoneUpdate(SX9310_CONVDONE_IRQ)
              /\ ~RegFailed => ConvdoneEnabled
        /\ ~last.arg.state /\ data.chan_read = 0 =>
              /\ OnlyConvdoneUpdate(0)
              /\ ~RegFailed => ~ConvdoneEnabled
        /\ ~last.arg.state /\ data.chan_read # 0 =>
              /\ RegOps(last.log) = <<>>
              /\ regmap.IRQ_MSK = last.arg.irq_msk
        /\ RegFailed => regmap.IRQ_MSK = last.arg.irq_msk
        /\ data.trigger_enabled =
              IF RegFailed THEN last.arg.trigger_enabled ELSE last.arg.state
        /\ (last.ret = "0") <=> ~RegFailed

\* the trigger was switched off while a synchronous read had its channel
\* acquired: the cause stays enabled for the read
C17_Witness ==
    /\ last.op = "set_trigger_state"
    /\ ~last.arg.state
    /\ last.arg.trigger_enabled
    /\ data.chan_read # 0
    /\ ~data.trigger_enabled
    /\ ConvdoneEnabled

(* --- C18: the trigger keeps its interrupt cause ----------------------- *)
\* C18: whenever trigger_enabled is true, an interrupt line exists and no
\* handler holds the mutex, the conversion-complete bit is set in IRQ_MSK; a
\* synchronous read that runs while the trigger is enabled does not leave
\* the cause disabled
C18_TriggerKeepsCause ==
    data.trigger_enabled /\ client_irq /\ mutex = "free" => ConvdoneEnabled

(* --- C19: the deferred interrupt stage -------------------------------- *)
IsLock(e) == e.op = "mutex_lock"

IsUnlock(e) == e.op = "mutex_unlock"

IsSrcRead(e) == e.op = "read" /\ e.reg = "IRQ_SRC"

IsTimestamp(e) == e.op = "iio_get_time_ns"

IsComplete(e) == e.op = "complete"

\* sx9310_push_events starts by taking the timestamp
DiffRuns == Len(SelectSeq(last.log, IsTimestamp))

\* C19: every run of sx9310_irq_thread_handler holds the mutex from its first
\* to its last step and reads IRQ_SRC exactly once; it runs the state-diff iff
\* the value read has the far or the close bit and signals the completion iff
\* it has the conversion-complete bit, the state-diff first; when the read
\* fails it emits no event, signals nothing and leaves chan_prox_stat alone
C19_DeferredStage ==
    last.op = "irq_thread_handler" =>
        LET log == last.log
            src == SelectSeq(log, IsSrcRead)
        IN /\ IsLock(log[1])
           /\ IsUnlock(log[Len(log)])
           /\ Len(SelectSeq(log, IsLock)) = 1
           /\ Len(SelectSeq(log, IsUnlock)) = 1
           /\ \A i \in 1..Len(log) : IsRegOp(log[i]) => log[i].held
           /\ Len(src) = 1
           /\ src[1].val = last.arg.src
           /\ last.ret = "IRQ_HANDLED"
           /\ src[1].ok =>
                 /\ DiffRuns =
                       IF BitAnd(src[1].val, SX9310_FAR_IRQ + SX9310_CLOSE_IRQ) # 0
                       THEN 1 ELSE 0
                 /\ Len(SelectSeq(log, IsComplete)) =
                       IF BitAnd(src[1].val, SX9310_CONVDONE_IRQ) # 0 THEN 1 ELSE 0
                 /\ \A i, j \in 1..Len(log) :
                       IsComplete(log[i]) /\ ~IsComplete(log[j]) /\ ~IsUnlock(log[j])
                           => j < i
           /\ ~src[1].ok =>
                 /\ DiffRuns = 0
                 /\ SelectSeq(log, IsEvent) = <<>>
                 /\ SelectSeq(log, IsComplete) = <<>>
                 /\ data.chan_prox_stat = last.arg.chan_prox_stat
                 /\ Len(RegOps(log)) = 1

\* one run that emitted an event and then signalled the completion
C19_Witness ==
    /\ last.op = "irq_thread_handler"
    /\ SelectSeq(last.log, IsEvent) # <<>>
    /\ SelectSeq(last.log, IsComplete) # <<>>
    /\ data.chan_prox_stat # last.arg.chan_prox_stat

(* --- C20: the immediate interrupt stage ------------------------------- *)
IsPoll(e) == e.op = "iio_trigger_poll"

\* C20: sx9310_irq_handler never takes the mutex and never accesses a
\* register; it polls the trigger's consumer iff trigger_enabled is true and
\* in every case asks for the deferred stage, also when no channel is enabled
\* for reads or events
C20_ImmediateStage ==
    last.op = "irq_handler" =>
        /\ SelectSeq(last.log, IsLock) = <<>>
        /\ RegOps(last.log) = <<>>
        /\ mutex = "free"
        /\ last.log = IF data.trigger_enabled
                      THEN << [op |-> "iio_trigger_poll"] >> ELSE <<>>
        /\ last.ret = "IRQ_WAKE_THREAD"
        /\ irq_pc = "wake"

\* the stage ran with the trigger enabled and no channel enabled for reads or
\* events
C20_Witness ==
    /\ last.op = "irq_handler"
    /\ data.trigger_enabled
    /\ data.chan_read = 0
    /\ data.chan_event = 0
    /\ SelectSeq(last.log, IsPoll) # <<>>
    /\ irq_pc = "wake"

(* --- C21: order and timestamp of the events of one run ---------------- *)
\* positions in the last handler's log of the entries that satisfy Test
Positions(Test(_)) == {i \in 1..Len(last.log) : Test(last.log[i])}

\* C21: the events emitted by one run of the deferred stage are emitted in
\* ascending channel order and carry one timestamp, which is taken once,
\* before STAT0 is read and before the first event is emitted
C21_EventsOrderedOneTimestamp ==
    (last.op = "irq_thread_handler" /\ Events # <<>>) =>
        /\ \A i, j \in 1..Len(Events) : i < j => Events[i].chan < Events[j].chan
        /\ Cardinality(Positions(IsTimestamp)) = 1
        /\ Cardinality(Positions(IsStatRead)) = 1
        /\ \A t \in Positions(IsTimestamp) :
              /\ \A i \in 1..Len(Events) : Events[i].timestamp = t
              /\ \A r \in Positions(IsStatRead) :
                    /\ t < r
                    /\ \A e \in Positions(IsEvent) : r < e

\* one run emitted events for two channels
C21_Witness ==
    /\ last.op = "irq_thread_handler"
    /\ Len(Events) = 2
    /\ Events[1].chan = 0
    /\ Events[2].chan = 1

(* --- C22: the steps of suspend and resume ----------------------------- *)
IsEnableIrq(e) == e.op = "enable_irq"

\* the register accesses of the last handler stop at the first that fails,
\* whose error is returned
StopsAtFirstFailure ==
    LET ops == RegOps(last.log)
    IN /\ \A i \in 1..(Len(ops) - 1) : ops[i].ok
       /\ last.ret = IF ops[Len(ops)].ok THEN "0" ELSE "EIO"

\* C22: sx9310_suspend disables the interrupt line before it takes the mutex,
\* saves PROX_CTRL0 in suspend_ctrl0, writes PROX_CTRL0 with the enable field
\* cleared and the other bits as saved, then writes the pause command; it
\* stops at the first failing access and returns its error.  sx9310_resume
\* writes un-pause, then suspend_ctrl0 to PROX_CTRL0; it re-enables the line,
\* after releasing the mutex, iff both writes succeeded, and otherwise returns
\* the error with the line still disabled
C22_SuspendResumeSteps ==
    LET log == last.log
        ops == RegOps(last.log)
    IN /\ last.op = "suspend" =>
             /\ log[1].op = "disable_irq_nosync"
             /\ log[2].op = "mutex_lock"
             /\ log[Len(log)].op = "mutex_unlock"
             /\ irq_depth = last.arg.irq_depth + 1
             /\ StopsAtFirstFailure
             /\ ops[1].op = "read" /\ ops[1].reg = "PROX_CTRL0"
             /\ Len(ops) = IF ~ops[1].ok THEN 1 ELSE IF ~ops[2].ok THEN 2 ELSE 3
             /\ ops[1].ok =>
                   /\ data.suspend_ctrl0 = last.arg.ctrl0
                   /\ ops[2].op = "write" /\ ops[2].reg = "PROX_CTRL0"
                   /\ ops[2].val = BitClear(last.arg.ctrl0,
                                            SX9310_REG_PROX_CTRL0_SENSOREN_MASK)
                   /\ ops[2].ok =>
                         /\ regmap.PROX_CTRL0 = ops[2].val
                         /\ ops[3].op = "write" /\ ops[3].reg = "PAUSE"
                         /\ ops[3].val = 0
       /\ last.op = "resume" =>
             /\ log[1].op = "mutex_lock"
             /\ StopsAtFirstFailure
             /\ ops[1].op = "write" /\ ops[1].reg = "PAUSE" /\ ops[1].val = 1
             /\ Len(ops) = IF ops[1].ok THEN 2 ELSE 1
             /\ ops[1].ok =>
                   /\ ops[2].op = "write" /\ ops[2].reg = "PROX_CTRL0"
                   /\ ops[2].val = data.suspend_ctrl0
             /\ IF last.ret = "0"
                THEN /\ Len(SelectSeq(log, IsEnableIrq)) = 1
                     /\ IsEnableIrq(log[Len(log)])
                     /\ IsUnlock(log[Len(log) - 1])
                ELSE /\ SelectSeq(log, IsEnableIrq) = <<>>
                     /\ IsUnlock(log[Len(log)])
                     /\ irq_depth > 0

\* a resume whose write of suspend_ctrl0 failed: the line stays disabled
C22_Witness ==
    /\ last.op = "resume"
    /\ Len(RegOps(last.log)) = 2
    /\ ~RegOps(last.log)[2].ok
    /\ last.ret = "EIO"
    /\ irq_depth > 0

(* --- C23: a waiting read is woken -------------------------------------- *)
\* a step in which no register access failed
Reliable(A) == A /\ ~RegFailed'

\* the synchronous read and the two interrupt stages on a device with an
\* interrupt line whose bus does not fail
NextLive ==
    \/ Reliable(ReadStart(Caller, ReadChannels))
    \/ ReadWaitCompletion(Caller)
    \/ ReadWaitInterrupted(Caller)
    \/ ReadReinit(Caller)
    \/ Reliable(ReadFinish(Caller, RawSamples))
    \/ Reliable(SetTriggerState)
    \/ HwRaise({SX9310_CONVDONE_IRQ})
    \/ IrqHandler
    \/ Reliable(IrqThread({0}, {{}}))

InitIrq == Init /\ client_irq

\* the interrupt is delivered, the interrupt thread and the reader are
\* scheduled: each of their steps is taken if it stays possible (NextLive
\* admits only the reliable steps of the two handlers)
Fairness ==
    /\ WF_vars(IrqHandler)
    /\ WF_vars(IrqThread({0}, {{}}))
    /\ WF_vars(ReadWaitCompletion(Caller))
    /\ WF_vars(ReadReinit(Caller))
    /\ WF_vars(ReadFinish(Caller, RawSamples))

SpecLive == InitIrq /\ [][NextLive]_vars /\ Fairness

ReadWaits == rd[Caller].pc = "waiting"

\* a conversion-complete interrupt is raised and the line is enabled
ConvdoneRaised ==
    /\ BitAnd(irq_src, SX9310_CONVDONE_IRQ) # 0
    /\ irq_depth = 0

\* C23: while a read waits the mutex is free, so that the deferred stage can
\* take it, and a waiting read for which a conversion-complete interrupt is
\* raised with the line enabled eventually returns
C23_WaitingReadReturns ==
    /\ [](ReadWaits => mutex = "free")
    /\ (ReadWaits /\ ConvdoneRaised) ~> (rd[Caller].pc = "idle")

\* a read returned a value after its wait was ended by the completion
C23_Witness ==
    /\ client_irq
    /\ last.op = "read_proximity"
    /\ last.arg.wait = "0"
    /\ last.ret = "IIO_VAL_INT"
    /\ irq_src = 0

(* --- C24: the event causes follow chan_event --------------------------- *)
\* event subscription over all four channels next to the other users of
\* IRQ_MSK, on a device with an interrupt line whose bus does not fail
NextSubscribe ==
    \/ Reliable(WriteEventConfigOn(AllChans))
    \/ Reliable(WriteEventConfigOvertaken(AllChans))
    \/ Reliable(SetTriggerState)
    \/ Reliable(ReadStart(Caller, ReadChannels))
    \/ ReadWaitCompletion(Caller)
    \/ ReadWaitInterrupted(Caller)
    \/ ReadReinit(Caller)
    \/ Reliable(ReadFinish(Caller, RawSamples))
    \/ HwRaise({SX9310_CONVDONE_IRQ})
    \/ IrqHandler
    \/ Reliable(IrqThread({0}, {{}}))

SpecSubscribe == InitIrq /\ [][NextSubscribe]_vars

EventCauses == BitAnd(regmap.IRQ_MSK, SX9310_FAR_IRQ + SX9310_CLOSE_IRQ)

\* C24: with an interrupt line and no failing register operation, after
\* every call of sx9310_write_event_config the far and close cause bits are
\* both set in IRQ_MSK if chan_event is non-empty and both clear if it is
\* empty, whatever the order of the calls over the four channels
C24_EventCausesFollowChanEvent ==
    EventCauses = IF data.chan_event # 0
                  THEN SX9310_FAR_IRQ + SX9310_CLOSE_IRQ ELSE 0

\* the last but one of several subscribed channels was unsubscribed: the
\* causes stay enabled
C24_Witness ==
    /\ last.op = "write_event_config"
    /\ ~last.arg.state
    /\ last.arg.chan_event = BIT(1) + BIT(3)
    /\ data.chan_event = BIT(3)
    /\ EventCauses = SX9310_FAR_IRQ + SX9310_CLOSE_IRQ

(* --- C25: rollback of sx9310_write_event_config ------------------------ *)
EventConfigRan == last.op = "write_event_config"

\* the call's update of the far and close causes failed
CauseUpdateFailed ==
    \E i \in Positions(IsIrqMskUpdate) : ~last.log[i].ok

\* the enable-field update of the rollback that follows it failed too
RollbackFailed ==
    \E i \in Positions(IsIrqMskUpdate), j \in Positions(IsCtrl0Update) :
        i < j /\ ~last.log[j].ok

\* the requested state is the one the channel had on entry
SameState == TestBit(last.arg.chan_event, last.chan) = last.arg.state

\* chan_event on entry with the call's channel in the requested state
Requested ==
    IF last.arg.state THEN BitOr(last.arg.chan_event, BIT(last.chan))
    ELSE BitClear(last.arg.chan_event, BIT(last.chan))

NoOpCall ==
    (EventConfigRan /\ SameState) =>
        /\ last.ret = "0"
        /\ last.log = <<>>
        /\ data.chan_event = last.arg.chan_event

\* C25: when the update of the far and close causes fails,
\* sx9310_write_event_config returns the error with chan_event and the enable
\* field as they were before the call; a call that requests the state the
\* channel has returns 0 without any register access
C25_RollbackRestores ==
    /\ (EventConfigRan /\ CauseUpdateFailed) =>
          /\ last.ret = "EIO"
          /\ data.chan_event = last.arg.chan_event
          /\ regmap.PROX_CTRL0 = last.arg.ctrl0
    /\ NoOpCall

\* the enable field as the call leaves it when its last successful
\* enable-field update was for the event set ev: written with the union, or
\* untouched when the call needed no enable-field update
FieldFor(ev) ==
    IF Positions(IsCtrl0Update) = {}
    THEN regmap.PROX_CTRL0 = last.arg.ctrl0
    ELSE EnableField = BitOr(data.chan_read, ev)

\* C25 (amended): the rollback is attempted and the error returned with
\* IRQ_MSK as before the call; chan_event is restored and the enable field
\* holds chan_read | chan_event (untouched if the call wrote no enable field),
\* unless the rollback's own enable-field update fails, in which case
\* chan_event and the enable field keep the requested state
C25_RollbackRestoresUnlessItFails ==
    /\ (EventConfigRan /\ CauseUpdateFailed) =>
          /\ last.ret = "EIO"
          /\ regmap.IRQ_MSK = last.arg.irq_msk
          /\ IF RollbackFailed
             THEN /\ data.chan_event = Requested
                  /\ EnableField = BitOr(data.chan_read, Requested)
             ELSE /\ data.chan_event = last.arg.chan_event
                  /\ FieldFor(last.arg.chan_event)
    /\ NoOpCall

\* a subscription whose cause update failed was rolled back with a register
\* write
C25_Witness ==
    /\ EventConfigRan
    /\ last.arg.state
    /\ CauseUpdateFailed
    /\ ~RollbackFailed
    /\ Cardinality(Positions(IsCtrl0Update)) = 2
    /\ data.chan_event = last.arg.chan_event

(* --- C26: lock discipline ------------------------------------------- *)
\* every operation that takes data->mutex, with one caller of the read and
\* channel 0 for the read and the events.  A device with an interrupt line
\* runs the read that waits for the completion, the events, the trigger, the
\* buffer and both interrupt stages; a device without one runs the read that
\* sleeps for the scan period, the changes of that period and the power
\* transitions, whose paths do not depend on the line
NextLock ==
    \/ ReadStart(Caller, {0})
    \/ ReadWaitCompletion(Caller)
    \/ ReadWaitInterrupted(Caller)
    \/ ReadReinit(Caller)
    \/ ReadWaitSample(Caller)
    \/ ReadFinish(Caller, RawSamples)
    \/ client_irq /\ WriteEventConfigOn({0})
    \/ SetTriggerState
    \/ client_irq /\ BufferPreenable
    \/ client_irq /\ BufferPostdisable
    \/ HwRaise({SX9310_CONVDONE_IRQ, SX9310_CLOSE_IRQ})
    \/ IrqHandler
    \/ IrqThread({0}, {{}})
    \/ TriggerHandler
    \/ ~client_irq /\ SetSampFreq
    \/ ~client_irq /\ Suspend
    \/ ~client_irq /\ Resume

SpecLock == Init /\ [][NextLock]_vars

\* the operations of the driver that take data->mutex
LockingOps ==
    {"read_proximity", "set_samp_freq", "irq_thread_handler",
     "write_event_config", "set_trigger_state", "trigger_handler",
     "buffer_preenable", "buffer_postdisable", "suspend", "resume"}

\* from entry i of log on, with the mutex held or not: the mutex is taken
\* only when free, released only when held, never held across a sleep, and
\* free at the end
RECURSIVE LockWalk(_, _, _)
LockWalk(log, i, held) ==
    IF i > Len(log) THEN ~held
    ELSE IF IsLock(log[i]) THEN ~held /\ LockWalk(log, i + 1, TRUE)
    ELSE IF IsUnlock(log[i]) THEN held /\ LockWalk(log, i + 1, FALSE)
    ELSE /\ IsSleep(log[i]) => ~held
         /\ LockWalk(log, i + 1, held)

\* the number of times the step that ran took the mutex
Acquisitions == Cardinality(Positions(IsLock))

\* sx9310_write_event_config for the state the channel has (line 607) and
\* sx9310_set_samp_freq for a frequency that is in no table row (line 480)
\* return before they take the mutex
ReturnsEarly ==
    \/ last.op = "write_event_config" /\ SameState
    \/ /\ last.op = "set_samp_freq"
       /\ SampFreqIndex(last.arg[1], last.arg[2]) = Len(sx9310_samp_freq_table)

TakesMutex == last.op \in LockingOps /\ ~ReturnsEarly

\* C26: every operation that takes data->mutex releases it exactly once on
\* every exit path: none returns holding it, unlocks it when it does not
\* hold it, or sleeps or waits for the completion while holding it
C26_LockDiscipline ==
    /\ mutex = "free"
    /\ LockWalk(last.log, 1, FALSE)
    /\ Cardinality(Positions(IsUnlock)) = Acquisitions
    /\ Acquisitions = IF TakesMutex THEN 1 ELSE 0
    /\ last.op = "wait_for_sample" => Positions(IsSleep) # {} \/ last.ret # "0"

\* an operation left through an error path after it took the mutex
C26_Witness ==
    /\ last.op \in {"suspend", "read_proximity", "write_event_config"}
    /\ last.ret # "0"
    /\ RegFailed
    /\ Acquisitions = 1
    /\ IsUnlock(last.log[Len(last.log)])
    /\ mutex = "free"

====
